---- MODULE Spec2Model ----
(***************************************************************************)
(* A model of the CivCloneJS server core: the hex map and its queries,     *)
(* per-civ tile visibility, tile ownership, improvements with errands and  *)
(* traders, and the save/load path.                                        *)
(***************************************************************************)
EXTENDS Integers, Sequences, FiniteSets, TLC

\* ------------------------------------------------------------------ bounds
\* Map dimensions (new Map(height, width)).
Width == 6
Height == 8
\* Number of handler calls explored from the constructed game.
MaxSteps == 4
MaxFogSteps == 2
\* Number of cities settled.
MaxCities == 2

\* ------------------------------------------------------------ program data
\* tile.unit, tile.owner and tile.improvement start undefined; a unit that is
\* not on the map has null coords.
NoUnit == 0
NoCity == 0
NoImp == 0
NullPos == -1

CivIDs == {0, 1}
NumTiles == Width * Height
Positions == 0 .. (NumTiles - 1)

Max(a, b) == IF a >= b THEN a ELSE b
Min(a, b) == IF a <= b THEN a ELSE b

InList(s, e) == \E i \in 1 .. Len(s) : s[i] = e

\* Map.pos: the flat index of a coord (x wraps, y does not).
pos(c) == (c.y * Width) + (c.x % Width)

\* Map.coords: the coord of a flat index.
coords(p) == [x |-> p % Width, y |-> p \div Width]

\* Map.getTile returns undefined exactly when the index is outside the array.
HasTile(c) == pos(c) \in Positions

\* utils.getAdjacentCoords: the six neighbours in odd-x offset layout.
getAdjacentCoords(c) ==
  IF c.x % 2 = 1
    THEN << [x |-> c.x,     y |-> c.y + 1],
            [x |-> c.x + 1, y |-> c.y + 1],
            [x |-> c.x + 1, y |-> c.y],
            [x |-> c.x,     y |-> c.y - 1],
            [x |-> c.x - 1, y |-> c.y],
            [x |-> c.x - 1, y |-> c.y + 1] >>
    ELSE << [x |-> c.x,     y |-> c.y + 1],
            [x |-> c.x + 1, y |-> c.y],
            [x |-> c.x + 1, y |-> c.y - 1],
            [x |-> c.x,     y |-> c.y - 1],
            [x |-> c.x - 1, y |-> c.y - 1],
            [x |-> c.x - 1, y |-> c.y] >>

\* utils.getCoordInDirection: the neighbour in direction d, d taken mod 6.
getCoordInDirection(c, d) == getAdjacentCoords(c)[(d % 6) + 1]

\* ------------------------------------------------------------------- state
VARIABLES
  tiles,       \* Map.tiles: pos -> [type, height, unit, owner, improvement, visibleTo, discoveredBy]
  units,       \* unit id -> [civID, coords, visionRange]
  civs,        \* World.civs: civID -> the civ's units list
  cities,      \* Map.cities: sequence of [civID, center, tiles]
  imps,        \* the Improvement objects: id -> record
  traderObjs,  \* the Trader objects: id -> record
  traders,     \* Map.traders: sequence of trader ids
  updates,     \* Map.updates: the coords of the queued tileUpdate closures
  crashed,     \* a handler ended with an uncaught TypeError
  lastHandler, \* the handler that ran last
  workLog,     \* the work() calls of the last handler: improvement, store before and after
  everVisible, \* <<pos, civ>> whose counter was > 0 after some setVisibility call
  players,     \* Game.players in the order they connected: [civID, isAI]
  sent,        \* what the last handler handed to a connection, in order, with a
               \* mark where it invoked world.turn()
  knowledge,   \* pos -> knowledge name -> the points the tile has accumulated
  spilled,     \* the addKnowledge calls of the last handler's spillover: [from, to, name]
  completions, \* the errand.complete calls of the last handler: [imp, p, type, option]
  begun,       \* civID -> how much of the update queue was there at the civ's
               \* last beginTurn (at construction before the first one)
  query,       \* a call of a map query: [fn, c, r, accept, mode, flat, answered, ret];
               \* flat tells that it is made on a map of one elevation
  lastCall,    \* the coords, the option, the ownerID and the result of the last action handler
  steps        \* handler calls still to be explored

vars == << tiles, units, civs, cities, imps, traderObjs, traders, updates,
           crashed, lastHandler, workLog, everVisible, players, sent, begun,
           knowledge, spilled, completions, query,
           lastCall, steps >>

\* Improvement.improvementHeightTable
improvementHeightTable(type) == IF type = "forest" THEN 5 ELSE 0

\* Tile.getTotalElevation: tile height plus the improvement's height.
getTotalElevation(ts, is, p) ==
  ts[p].height +
    (IF ts[p].improvement = NoImp THEN 0
     ELSE improvementHeightTable(is[ts[p].improvement].type))

\* Evaluate x once and apply F to its value.
Bind(x, F(_)) == CHOOSE r \in {F(v) : v \in {x}} : TRUE

\* The result of a query that may dereference a missing tile.
Thrown == [ok |-> FALSE, list |-> << >>]

\* Map.getVisibleTilesRecurse with stepLength = 1; acc is [ok, list] where list
\* holds the positions pushed so far (coordsArray and tileSet together).
RECURSIVE getVisibleTilesRecurse(_, _, _, _, _, _, _, _, _)
getVisibleTilesRecurse(ts, is, c, maxElevation, slope, r, direction, acc, stepsUntilSpread) ==
  IF ~acc.ok \/ r <= 0 THEN acc
  ELSE IF ~HasTile(c) THEN Thrown
  ELSE
    LET \* the recursive call for the neighbour n with the list a
        Into(n, a, untilSpread) ==
          IF ~a.ok \/ ~HasTile(n) THEN Thrown
          ELSE Bind([m |-> maxElevation + slope,
                     s |-> Max(slope, getTotalElevation(ts, is, pos(n)) - maxElevation)],
                    LAMBDA k : getVisibleTilesRecurse(ts, is, n, k.m, k.s, r - 1, direction,
                                                      a, untilSpread))
    IN Bind([here |-> pos(c),
             lft  |-> getCoordInDirection(c, direction - 1),
             fwd  |-> getCoordInDirection(c, direction),
             rgt  |-> getCoordInDirection(c, direction + 1)],
         LAMBDA n :
           Bind(IF ~InList(acc.list, n.here) /\ getTotalElevation(ts, is, n.here) >= maxElevation
                  THEN [acc EXCEPT !.list = Append(@, n.here)]
                  ELSE acc,
             LAMBDA a0 :
               IF stepsUntilSpread = 0
                 THEN Bind(Into(n.lft, a0, 1), LAMBDA a1 :
                        Bind(Into(n.fwd, a1, 1), LAMBDA a2 : Into(n.rgt, a2, 1)))
                 ELSE Into(n.fwd, a0, stepsUntilSpread - 1)))

\* The six wedges of Map.getVisibleTilesCoords, direction by direction.
RECURSIVE VisibleWedges(_, _, _, _, _, _)
VisibleWedges(ts, is, p, range, direction, acc) ==
  IF direction >= 6 \/ ~acc.ok THEN acc
  ELSE
    Bind(getCoordInDirection(coords(p), direction), LAMBDA newCoords :
      IF ~HasTile(newCoords) THEN Thrown
      ELSE
        Bind(getTotalElevation(ts, is, pos(newCoords)) - getTotalElevation(ts, is, p),
          LAMBDA slope :
            Bind(getVisibleTilesRecurse(ts, is, newCoords,
                   getTotalElevation(ts, is, p) + slope, slope, range, direction, acc, 0),
              LAMBDA next : VisibleWedges(ts, is, p, range, direction + 1, next))))

\* Map.getVisibleTilesCoords for a unit standing at position p.
getVisibleTilesCoords(ts, is, p, range) ==
  VisibleWedges(ts, is, p, range, 0, [ok |-> TRUE, list |-> << p >>])

\* rangeMap[pos] as the memo of Map.getNeighborsRecurse reads it: unset, or
\* set to 0, is falsy.
RangeFalsy(rangeMap, p) == p \notin DOMAIN rangeMap \/ rangeMap[p] = 0

\* Map.getNeighborsRecurse; acc is [list, rangeMap], list the positions pushed
\* so far (coordList and tileSet together); accept is the set of positions the
\* filter accepts (all positions when no filter is given).
RECURSIVE getNeighborsRecurse(_, _, _, _), NeighborsLoop(_, _, _, _, _)
getNeighborsRecurse(c, r, acc, accept) ==
  IF r >= 0 /\ HasTile(c)
    THEN
      Bind(IF ~InList(acc.list, pos(c)) /\ pos(c) \in accept
             THEN [list |-> Append(acc.list, pos(c)),
                   rangeMap |-> [q \in DOMAIN acc.rangeMap \cup {pos(c)} |->
                                   IF q = pos(c) THEN r ELSE acc.rangeMap[q]]]
             ELSE acc,
        LAMBDA a0 : NeighborsLoop(c, r, a0, accept, 1))
    ELSE acc
NeighborsLoop(c, r, acc, accept, i) ==
  IF i > 6 THEN acc
  ELSE
    Bind(getAdjacentCoords(c)[i], LAMBDA coord :
      IF RangeFalsy(acc.rangeMap, pos(coord)) \/ acc.rangeMap[pos(coord)] < r - 1
        THEN Bind(getNeighborsRecurse(coord, r - 1, acc, accept),
               LAMBDA a1 : NeighborsLoop(c, r, a1, accept, i + 1))
        ELSE NeighborsLoop(c, r, acc, accept, i + 1))

\* getNeighborsCoords leaving the centre out of its answer.
getNeighborsCoordsNoCentre(c, r, accept) ==
  Bind(getNeighborsRecurse(c, r, [list |-> << >>, rangeMap |-> << >>], accept).list,
    LAMBDA list : SubSeq(list, 2, Len(list)))

\* Map.getNeighborsCoords: the positions of the returned coords, in order.
getNeighborsCoords(c, r, accept) ==
  getNeighborsRecurse(c, r, [list |-> << >>, rangeMap |-> << >>], accept).list

\* Knowledge.getKnowledgeList(): the knowledges and their branches.
KnowledgeList ==
  { [name |-> "science_1", branch |-> "development"],
    [name |-> "military_0", branch |-> "offense"] }
KnowledgeNames == {k.name : k \in KnowledgeList}
KnowledgeOrder == << "science_1", "military_0" >>

\* ------------------------------------------------------------ yields, tiles
\* Yield: the resource vector; a key missing from the params is 0.
Yield(f, p) == [food |-> f, production |-> p]
ResourceKeys == {"food", "production"}
YieldAdd(a, b) == [k \in ResourceKeys |-> a[k] + b[k]]
\* Yield.decr saturates at zero; Yield.min is the per-key minimum;
\* divNumber divides per key, rounding down; fulfills is componentwise >=.
YieldDecr(a, b) == [k \in ResourceKeys |-> Max(a[k] - b[k], 0)]
YieldMin(a, b) == [k \in ResourceKeys |-> Min(a[k], b[k])]
divNumber(a, n) == [k \in ResourceKeys |-> a[k] \div n]
fulfills(a, cost) == \A k \in ResourceKeys : a[k] >= cost[k]

\* Improvement.yieldTable, with the ?? new Yield({}) of the constructor.
yieldTable(type) ==
  CASE type = "settlement" -> Yield(2, 2)
    [] type = "encampment" -> Yield(0, 1)
    [] type = "farm"       -> Yield(1, 0)
    [] type = "forest"     -> Yield(1, 0)
    [] OTHER               -> Yield(0, 0)

\* Improvement.storeCapTable; a type without an entry, and a key without a
\* value, has capacity 0.
storeCapTable(type) ==
  CASE type = "settlement" -> Yield(20, 2)
    [] type = "encampment" -> Yield(10, 1)
    [] type = "farm"       -> Yield(20, 0)
    [] OTHER               -> Yield(0, 0)

\* Improvement.naturalImprovementTable
naturalImprovementTable(type) == type = "forest"

\* new Improvement(type, baseYield) forgetting the base yield.
NewImprovementNoBase(type, baseYield) ==
  [ type      |-> type,
    pillaged  |-> FALSE,
    isNatural |-> naturalImprovementTable(type),
    yield     |-> IF naturalImprovementTable(type) THEN Yield(0, 0) ELSE yieldTable(type),
    storage   |-> Yield(0, 0),
    capacity  |-> storeCapTable(type),
    errand    |-> << >>,
    traders   |-> << >>,
    suppliers |-> << >> ]

\* new Improvement(type, baseYield)
NewImprovement(type, baseYield) ==
  [ type      |-> type,
    pillaged  |-> FALSE,
    isNatural |-> naturalImprovementTable(type),
    yield     |-> IF naturalImprovementTable(type) THEN Yield(0, 0)
                  ELSE YieldAdd(baseYield, yieldTable(type)),
    storage   |-> Yield(0, 0),
    capacity  |-> storeCapTable(type),
    errand    |-> << >>,
    traders   |-> << >>,
    suppliers |-> << >> ]

\* tileMovementCostTable: [land, water] movement cost, 0 = impassable.
tileMovementCostTable(type) ==
  CASE type = "plains"   -> << 1, 0 >>
    [] type = "desert"   -> << 1, 0 >>
    [] type = "ocean"    -> << 0, 1 >>
    [] type = "river"    -> << 3, 1 >>
    [] type = "mountain" -> << 0, 0 >>
    [] OTHER             -> << 0, 0 >>

\* The terrain the map is built with.
TileTypeOf(p) ==
  CASE p = 40 -> "river"
    [] p = 41 -> "mountain"
    [] p = 46 -> "ocean"
    [] OTHER  -> "plains"
TileHeightOf(p) == IF TileTypeOf(p) = "mountain" THEN 3 ELSE 0
BaseYieldOf(p) == IF TileTypeOf(p) = "plains" THEN Yield(1, 0) ELSE Yield(0, 0)

\* new Tile(type, tileHeight, baseYield); the counters of every civ are 0 once
\* the game's constructor has cleared them.
NewTile(p) ==
  [ type         |-> TileTypeOf(p),
    height       |-> TileHeightOf(p),
    baseYield    |-> BaseYieldOf(p),
    unit         |-> NoUnit,
    owner        |-> NoCity,
    improvement  |-> NoImp,
    visibleTo    |-> [c \in CivIDs |-> 0],
    discoveredBy |-> [c \in CivIDs |-> FALSE] ]

\* Tile.setVisibility
setVisibility(tile, civID, visible) ==
  [tile EXCEPT
     !.visibleTo[civID] = IF visible THEN @ + 1 ELSE @ - 1,
     !.discoveredBy[civID] = IF visible /\ ~@ THEN TRUE ELSE @]

\* Tile.clearVisibility
clearVisibility(tile, civID) == [tile EXCEPT !.visibleTo[civID] = 0]

\* Map.tileUpdate: push the closure for these coords.
tileUpdate(w, p) == [w EXCEPT !.updates = Append(@, p)]

\* Tile.setVisibility on the tile at p of the handler's state w, as every
\* caller reaches it; w.ever records the counters found positive after it.
TileSetVisibility(w, civID, p, visible) ==
  [w EXCEPT
     !.tiles[p] = setVisibility(@, civID, visible),
     !.ever = IF setVisibility(w.tiles[p], civID, visible).visibleTo[civID] > 0
                THEN @ \cup {<< p, civID >>} ELSE @]

\* Map.setTileVisibility
setTileVisibility(w, civID, p, visible) ==
  tileUpdate(TileSetVisibility(w, civID, p, visible), p)

\* for (const visibleCoords of list) this.setTileVisibility(civID, visibleCoords, visible)
\* The list holds no position twice, so the loop touches each listed tile once
\* and queues the updates in list order.
ListSet(list) == {list[i] : i \in 1 .. Len(list)}
SetVisibilityAll(w, civID, list, visible) ==
  [w EXCEPT
     !.tiles = [p \in Positions |->
                  IF p \in ListSet(list) THEN setVisibility(w.tiles[p], civID, visible)
                  ELSE w.tiles[p]],
     !.updates = @ \o list,
     !.ever = @ \cup {<< p, civID >> : p \in {q \in ListSet(list) :
                        setVisibility(w.tiles[q], civID, visible).visibleTo[civID] > 0}}]

\* ------------------------------------------------------------------ units
\* The units of the game.  Unit 1 (civ 0) and unit 2 (civ 1) are on the map
\* when the game is constructed, unit 3 (civ 0) is added later.
UnitIDs == {1, 2, 3}
UnitCiv(u) == IF u = 2 THEN 1 ELSE 0
UnitType(u) == IF u = 1 THEN "settler" ELSE "scout"

\* new Unit(type, civID): not on the map yet.
NewUnit(u) ==
  [ civID |-> UnitCiv(u), type |-> UnitType(u), hp |-> 100, movement |-> 0,
    coords |-> NullPos, visionRange |-> 2 ]

\* A unit that is on the map: its coords are not the null sentinel.
Placed(us, u) == us[u].coords # NullPos

\* Map.moveUnitTo, first half: mark the tiles the unit sees as unseen and take
\* the unit off its tile.  st is the handler's state.
LeaveTile(st, is, u) ==
  Bind(getVisibleTilesCoords(st.tiles, is, st.units[u].coords, st.units[u].visionRange),
    LAMBDA srcVisible :
      IF ~srcVisible.ok THEN [st EXCEPT !.ok = FALSE]
      ELSE Bind(SetVisibilityAll(st, st.units[u].civID, srcVisible.list, FALSE),
             LAMBDA w1 : tileUpdate([w1 EXCEPT !.tiles[st.units[u].coords].unit = NoUnit],
                                    st.units[u].coords)))

\* Map.moveUnitTo, second half: put the unit on the tile at c and mark the
\* tiles it sees from there as seen.
EnterTile(st, is, u, c) ==
  Bind(tileUpdate([st EXCEPT !.units[u].coords = c, !.tiles[c].unit = u], c),
    LAMBDA s1 :
      Bind(getVisibleTilesCoords(s1.tiles, is, c, s1.units[u].visionRange),
        LAMBDA newVisible :
          IF ~newVisible.ok THEN [s1 EXCEPT !.ok = FALSE]
          ELSE SetVisibilityAll(s1, s1.units[u].civID, newVisible.list, TRUE)))

\* Map.moveUnitTo(unit, coords).  A unit with null coords has no old position
\* to leave, and null coords are no tile to enter.
moveUnitTo(st, is, u, c) ==
  Bind(IF Placed(st.units, u) THEN LeaveTile(st, is, u) ELSE st,
    LAMBDA s1 :
      IF ~s1.ok THEN s1
      ELSE IF c = NullPos THEN [s1 EXCEPT !.units[u].coords = NullPos]
      ELSE EnterTile(s1, is, u, c))

\* Civilization.addUnit / Civilization.removeUnit on the civ's units list.
CivAddUnit(list, u) == Append(list, u)
CivRemoveUnit(list, u) == SelectSeq(list, LAMBDA v : v # u)

\* Game.addUnit(unit, coords): the civ's list first, then the map.
addUnit(st, u, c) ==
  Bind([st EXCEPT !.civs[st.units[u].civID] = CivAddUnit(@, u)], LAMBDA s1 :
    moveUnitTo(s1, s1.imps, u, c))

\* getNeighborsCoords(coords) with the default r = 1, as positions in order.
Neighbors1 == [p \in Positions |-> getNeighborsCoords(coords(p), 1, Positions)]

\* The neighbours within 3 of each position, as getNeighborsCoords lists them.
Neighbors3 == [p \in Positions |-> ListSet(getNeighborsCoords(coords(p), 3, Positions))]

\* updateCivTileVisibility without the clearVisibility loop.
updateCivTileVisibilityNoClear(w, us, cs, civID) ==
  LET k(p) == Cardinality({i \in 1 .. Len(cs[civID]) : p \in Neighbors3[us[cs[civID][i]].coords]})
  IN [w EXCEPT
        !.tiles = [p \in Positions |->
                     [w.tiles[p] EXCEPT !.visibleTo[civID] = @ + k(p),
                                        !.discoveredBy[civID] = @ \/ k(p) > 0]],
        !.ever = @ \cup {<< p, civID >> : p \in {q \in Positions : k(q) > 0}}]

\* Game.updateCivTileVisibility: clear the civ's counter on every tile, then
\* call setVisibility(civID, true) on the neighbours within 3 of each of the
\* civ's units; a tile near k of the units is lit k times.
updateCivTileVisibility(w, us, cs, civID) ==
  LET k(p) == Cardinality({i \in 1 .. Len(cs[civID]) : p \in Neighbors3[us[cs[civID][i]].coords]})
  IN [w EXCEPT
        !.tiles = [p \in Positions |->
                     [w.tiles[p] EXCEPT !.visibleTo[civID] = k(p),
                                        !.discoveredBy[civID] = @ \/ k(p) > 0]],
        !.ever = @ \cup {<< p, civID >> : p \in {q \in Positions : k(q) > 0}}]

\* ----------------------------------------------------------------- cities
\* new City(coords, name, civID): the owned-tile set starts empty.
NewCity(center, civID) == [civID |-> civID, center |-> center, tiles |-> {}]

\* tile.owner?.civID: the civ of the tile's owning city, -1 for no owner.
OwnerCiv(st, p) ==
  IF st.tiles[p].owner = NoCity THEN -1 ELSE st.cities[st.tiles[p].owner].civID

\* setTileOwner taking every call as one with overwrite = true.
setTileOwnerAlways(st, p, owner, overwrite) ==
  Bind(IF st.tiles[p].owner # NoCity
         THEN TileSetVisibility([st EXCEPT !.cities[st.tiles[p].owner].tiles = @ \ {p}],
                                st.cities[st.tiles[p].owner].civID, p, FALSE)
         ELSE st,
    LAMBDA s1 :
      Bind([s1 EXCEPT !.tiles[p].owner = owner], LAMBDA s2 :
        Bind(TileSetVisibility(s2, s2.cities[owner].civID, p, TRUE), LAMBDA s3 :
          [s3 EXCEPT !.cities[owner].tiles = @ \cup {p}])))

\* setTileOwner leaving an overwritten tile in its old city's set.
setTileOwnerKeepOld(st, p, owner, overwrite) ==
  IF st.tiles[p].owner # NoCity /\ ~overwrite THEN st
  ELSE
    Bind(IF st.tiles[p].owner # NoCity
           THEN TileSetVisibility(st, st.cities[st.tiles[p].owner].civID, p, FALSE)
           ELSE st,
      LAMBDA s1 :
        Bind([s1 EXCEPT !.tiles[p].owner = owner], LAMBDA s2 :
          Bind(TileSetVisibility(s2, s2.cities[owner].civID, p, TRUE), LAMBDA s3 :
            [s3 EXCEPT !.cities[owner].tiles = @ \cup {p}])))

\* Map.setTileOwner(coords, owner, overwrite); owner is a city of st.cities.
setTileOwner(st, p, owner, overwrite) ==
  IF st.tiles[p].owner # NoCity /\ ~overwrite THEN st
  ELSE
    Bind(IF st.tiles[p].owner # NoCity
           THEN TileSetVisibility([st EXCEPT !.cities[st.tiles[p].owner].tiles = @ \ {p}],
                                  st.cities[st.tiles[p].owner].civID, p, FALSE)
           ELSE st,
      LAMBDA s1 :
        Bind([s1 EXCEPT !.tiles[p].owner = owner], LAMBDA s2 :
          Bind(TileSetVisibility(s2, s2.cities[owner].civID, p, TRUE), LAMBDA s3 :
            [s3 EXCEPT !.cities[owner].tiles = @ \cup {p}])))

\* Map.canSettleOn
canSettleOn(tile) ==
  /\ tile.owner = NoCity
  /\ tile.type \notin {"ocean", "frozen_ocean", "mountain", "coastal", "frozen_coastal", "river"}

\* Map.canBuildOn
canBuildOn(tile) == tile.type \notin {"ocean", "frozen_ocean", "mountain"}

\* buildImprovementAt without the check of the tile's owner.
buildImprovementAtAnyOwner(st, p, type, ownerID) ==
  IF ~canBuildOn(st.tiles[p]) THEN st
  ELSE tileUpdate([st EXCEPT !.imps = Append(@, NewImprovement(type, st.tiles[p].baseYield)),
                             !.tiles[p].improvement = Len(st.imps) + 1], p)

\* Map.buildImprovementAt(coords, type, ownerID)
buildImprovementAt(st, p, type, ownerID) ==
  IF OwnerCiv(st, p) # ownerID THEN st
  ELSE IF ~canBuildOn(st.tiles[p]) THEN st
  ELSE tileUpdate([st EXCEPT !.imps = Append(@, NewImprovement(type, st.tiles[p].baseYield)),
                             !.tiles[p].improvement = Len(st.imps) + 1], p)

\* for (const neighbor of neighbors) { setTileOwner(neighbor, city, false); tileUpdate(neighbor) }
RECURSIVE OwnNeighbors(_, _, _, _)
OwnNeighbors(st, list, city, i) ==
  IF i > Len(list) THEN st
  ELSE Bind(setTileOwner(st, list[i], city, FALSE), LAMBDA s1 :
         Bind(tileUpdate(s1, list[i]), LAMBDA s2 : OwnNeighbors(s2, list, city, i + 1)))

\* settleCityAt without the canSettleOn check.
settleCityAtUnchecked(st, p, civID) ==
  Bind([st EXCEPT !.cities = Append(@, NewCity(p, civID))], LAMBDA s1 :
    Bind(OwnNeighbors(s1, Neighbors1[p], Len(s1.cities), 1), LAMBDA s2 :
      buildImprovementAt(s2, p, "settlement", civID)))

\* Map.settleCityAt(coords, name, civID); the result's ok is the returned boolean.
settleCityAt(st, p, civID) ==
  IF ~canSettleOn(st.tiles[p]) THEN [st EXCEPT !.ok = FALSE]
  ELSE
    Bind([st EXCEPT !.cities = Append(@, NewCity(p, civID))], LAMBDA s1 :
      Bind(OwnNeighbors(s1, Neighbors1[p], Len(s1.cities), 1), LAMBDA s2 :
        buildImprovementAt(s2, p, "settlement", civID)))

\* ----------------------------------------------------------- path finding
\* MovementClass: LAND is 0, WATER 1, AIR 2.
LAND == 0
WATER == 1
AIR == 2
\* Infinity as a cost no range reaches; an absent dst key; an absent paths key.
Infinity == 1000
NoDist == -1
NoParent == -1

\* mode !== MovementClass.AIR ? tile.movementCost[mode] || Infinity : 1
movementCost(tile, mode) ==
  IF mode # AIR
    THEN LET m == tileMovementCostTable(tile.type)[mode + 1]
         IN IF m = 0 THEN Infinity ELSE m
    ELSE 1

\* The for loop of getPathTree keeping the first parent a tile was given.
RECURSIVE RelaxKeepParent(_, _, _, _, _, _, _)
RelaxKeepParent(ts, s, at, list, i, range, mode) ==
  IF i > Len(list) THEN s
  ELSE
    Bind([adj |-> list[i], d |-> s.dst[at] + movementCost(ts[list[i]], mode)], LAMBDA n :
      IF s.dst[n.adj] = NoDist \/ s.dst[n.adj] > n.d
        THEN Bind(IF n.d <= range
                    THEN [queue |-> Append(s.queue, n.adj),
                          dst   |-> [s.dst EXCEPT ![n.adj] = n.d],
                          paths |-> [s.paths EXCEPT ![n.adj] = IF @ = NoParent THEN at ELSE @]]
                    ELSE [s EXCEPT !.dst[n.adj] = n.d],
               LAMBDA s1 : RelaxKeepParent(ts, s1, at, list, i + 1, range, mode))
        ELSE RelaxKeepParent(ts, s, at, list, i + 1, range, mode))

\* The for loop of getPathTree writing only the keys dst does not have yet.
RECURSIVE RelaxUnsetOnly(_, _, _, _, _, _, _)
RelaxUnsetOnly(ts, s, at, list, i, range, mode) ==
  IF i > Len(list) THEN s
  ELSE
    Bind([adj |-> list[i], d |-> s.dst[at] + movementCost(ts[list[i]], mode)], LAMBDA n :
      IF s.dst[n.adj] = NoDist
        THEN Bind(IF n.d <= range
                    THEN [queue |-> Append(s.queue, n.adj),
                          dst   |-> [s.dst EXCEPT ![n.adj] = n.d],
                          paths |-> [s.paths EXCEPT ![n.adj] = at]]
                    ELSE [s EXCEPT !.dst[n.adj] = n.d],
               LAMBDA s1 : RelaxUnsetOnly(ts, s1, at, list, i + 1, range, mode))
        ELSE RelaxUnsetOnly(ts, s, at, list, i + 1, range, mode))

\* The for loop of getPathTree over the neighbours list[i..] of at; s is
\* [queue, dst, paths].
RECURSIVE RelaxAll(_, _, _, _, _, _, _)
RelaxAll(ts, s, at, list, i, range, mode) ==
  IF i > Len(list) THEN s
  ELSE
    Bind([adj |-> list[i], d |-> s.dst[at] + movementCost(ts[list[i]], mode)], LAMBDA n :
      IF s.dst[n.adj] = NoDist \/ s.dst[n.adj] > n.d
        THEN Bind(IF n.d <= range
                    THEN [queue |-> Append(s.queue, n.adj),
                          dst   |-> [s.dst EXCEPT ![n.adj] = n.d],
                          paths |-> [s.paths EXCEPT ![n.adj] = at]]
                    ELSE [s EXCEPT !.dst[n.adj] = n.d],
               LAMBDA s1 : RelaxAll(ts, s1, at, list, i + 1, range, mode))
        ELSE RelaxAll(ts, s, at, list, i + 1, range, mode))

\* One turn of the while loop of getPathTree.
PathStep(ts, s, range, mode) ==
  IF s.queue = << >> THEN s
  ELSE RelaxAll(ts, [queue |-> Tail(s.queue), dst |-> s.dst, paths |-> s.paths],
                Head(s.queue), Neighbors1[Head(s.queue)], 1, range, mode)

\* Four turns of the loop.
PathStep4(ts, s, range, mode) ==
  Bind(PathStep(ts, s, range, mode), LAMBDA s1 :
    Bind(PathStep(ts, s1, range, mode), LAMBDA s2 :
      Bind(PathStep(ts, s2, range, mode), LAMBDA s3 : PathStep(ts, s3, range, mode))))

\* while (queue.length) { ... }
RECURSIVE PathLoop(_, _, _, _)
PathLoop(ts, s, range, mode) ==
  IF s.queue = << >> THEN s
  ELSE Bind(PathStep4(ts, s, range, mode), LAMBDA s1 : PathLoop(ts, s1, range, mode))

\* Map.getPathTree(srcPos, range, mode): [paths, dst], both keyed by position.
getPathTree(ts, srcPos, range, mode) ==
  PathLoop(ts,
    [queue |-> << srcPos >>,
     dst   |-> [p \in Positions |-> IF p = srcPos THEN 0 ELSE NoDist],
     paths |-> [p \in Positions |-> NoParent]],
    range, mode)

\* A path that was not found.
NoPath == [found |-> FALSE, path |-> << >>]

\* findPath answering [target] as soon as the source is the target itself.
RECURSIVE findPathSelf(_, _, _)
findPathSelf(pathTree, srcPosKey, target) ==
  IF srcPosKey = target THEN [found |-> TRUE, path |-> << target >>]
  ELSE IF pathTree[srcPosKey] # NoParent
    THEN IF pathTree[srcPosKey] = target
           THEN [found |-> TRUE, path |-> << target >>]
           ELSE Bind(findPathSelf(pathTree, pathTree[srcPosKey], target), LAMBDA subPath :
                  IF ~subPath.found THEN NoPath
                  ELSE [found |-> TRUE, path |-> << pathTree[srcPosKey] >> \o subPath.path])
    ELSE NoPath

\* Map.findPath(pathTree, srcPosKey, target)
RECURSIVE findPath(_, _, _)
findPath(pathTree, srcPosKey, target) ==
  IF pathTree[srcPosKey] # NoParent
    THEN IF pathTree[srcPosKey] = target
           THEN [found |-> TRUE, path |-> << target >>]
           ELSE Bind(findPath(pathTree, pathTree[srcPosKey], target), LAMBDA subPath :
                  IF ~subPath.found THEN NoPath
                  ELSE [found |-> TRUE, path |-> << pathTree[srcPosKey] >> \o subPath.path])
    ELSE NoPath

\* Map.findRoute(pathTree, dst, srcPosKey, target): [found, path, length].
findRoute(pathTree, dst, srcPosKey, target) ==
  Bind(findPath(pathTree, srcPosKey, target), LAMBDA path :
    IF ~path.found THEN [found |-> FALSE, path |-> << >>, length |-> 0]
    ELSE IF ~(srcPosKey = (<< srcPosKey >> \o path.path)[1] /\ target = path.path[Len(path.path)])
      THEN [found |-> FALSE, path |-> << >>, length |-> 0]
    ELSE [found |-> TRUE, path |-> << srcPosKey >> \o path.path, length |-> dst[srcPosKey]])

\* ------------------------------------------------------ errands, traders
\* WorkErrand.errandCostTable[type][option]
errandCostTable(type, option) ==
  CASE type = "construction" /\ option = "farm"       -> Yield(1, 2)
    [] type = "construction" /\ option = "encampment" -> Yield(0, 2)
    [] type = "construction" /\ option = "campus"     -> Yield(1, 3)
    [] type = "unit_training" /\ option = "settler"   -> Yield(2, 1)
    [] type = "unit_training" /\ option = "scout"     -> Yield(1, 1)
    [] type = "research"                              -> Yield(0, 2)
    [] OTHER                                          -> Yield(0, 0)

\* new WorkErrand(storage, action): the store's capacity is raised to the cost.
NewWorkErrand(type, option, location) ==
  [ type |-> type, option |-> option, location |-> location,
    cost |-> errandCostTable(type, option),
    storedThisTurn |-> Yield(0, 0), completed |-> FALSE ]

\* Improvement.startErrand(errand) on improvement i.
startErrand(st, i, type, option, location) ==
  [st EXCEPT !.imps[i].errand = << NewWorkErrand(type, option, location) >>,
             !.imps[i].capacity = errandCostTable(type, option)]

\* Map.startErrandAt(coords, improvement, errand)
startErrandAt(st, p, i, type, option, location) ==
  Bind(startErrand(st, i, type, option, location), LAMBDA s1 : tileUpdate(s1, p))

\* Tile.canSupply(requirement): the tile's improvement yields some resource
\* the requirement asks for.
canSupply(st, p, requirement) ==
  /\ st.tiles[p].improvement # NoImp
  /\ \E k \in ResourceKeys :
       requirement[k] > 0 /\ st.imps[st.tiles[p].improvement].yield[k] > 0

\* TRADER_SPEED and TRADER_CAPACITY
TRADER_SPEED == 1
TRADER_CAPACITY == Yield(10, 10)

\* new Trader(civID, route, source, sink, speed, capacity)
NewTrader(civID, route, source, sink, speed, capacity) ==
  [ civID |-> civID, path |-> route.path, length |-> route.length,
    source |-> source, sink |-> sink, speed |-> speed, capacity |-> capacity,
    carried |-> Yield(0, 0), expired |-> FALSE, position |-> 1, returning |-> FALSE ]

\* Map.addTrader(new Trader(...)): the trader subscribes to its source as a
\* trader and to its sink as a supplier, and joins Map.traders.
addTrader(st, trader) ==
  [st EXCEPT !.traderObjs = Append(@, trader),
             !.traders = Append(@, Len(st.traderObjs) + 1),
             !.imps[trader.source].traders = Append(@, Len(st.traderObjs) + 1),
             !.imps[trader.sink].suppliers = Append(@, Len(st.traderObjs) + 1)]

\* The loop of createTradeRoutes leaving at the first candidate without a route.
RECURSIVE TradeRoutesLoopBreak(_, _, _, _, _, _, _, _)
TradeRoutesLoopBreak(st, civID, c, sink, requirement, tree, posKeys, i) ==
  IF i > Len(posKeys) THEN st
  ELSE
    Bind(findRoute(tree.paths, tree.dst, posKeys[i], c), LAMBDA route :
      IF OwnerCiv(st, posKeys[i]) = civID /\ canSupply(st, posKeys[i], requirement)
        THEN IF ~route.found THEN st
             ELSE Bind(addTrader(st, NewTrader(civID, route, st.tiles[posKeys[i]].improvement, sink,
                                               TRADER_SPEED, YieldMin(TRADER_CAPACITY, requirement))),
                    LAMBDA s1 : TradeRoutesLoopBreak(s1, civID, c, sink, requirement, tree, posKeys, i + 1))
        ELSE TradeRoutesLoopBreak(st, civID, c, sink, requirement, tree, posKeys, i + 1))

\* The loop of Map.createTradeRoutes over posKeys[i..], the keys of dst in the
\* order the sort left them.
RECURSIVE TradeRoutesLoop(_, _, _, _, _, _, _, _)
TradeRoutesLoop(st, civID, c, sink, requirement, tree, posKeys, i) ==
  IF i > Len(posKeys) THEN st
  ELSE
    Bind(findRoute(tree.paths, tree.dst, posKeys[i], c), LAMBDA route :
      IF OwnerCiv(st, posKeys[i]) = civID /\ canSupply(st, posKeys[i], requirement) /\ route.found
        THEN Bind(addTrader(st, NewTrader(civID, route, st.tiles[posKeys[i]].improvement, sink,
                                          TRADER_SPEED, YieldMin(TRADER_CAPACITY, requirement))),
               LAMBDA s1 : TradeRoutesLoop(s1, civID, c, sink, requirement, tree, posKeys, i + 1))
        ELSE TradeRoutesLoop(st, civID, c, sink, requirement, tree, posKeys, i + 1))

\* The candidates of createTradeRoutes: the keys of dst whose tile the civ
\* owns and can supply the requirement; no other key changes anything.
Candidates(st, civID, c, requirement, tree) ==
  {p \in Positions :
     /\ tree.dst[p] # NoDist
     /\ OwnerCiv(st, p) = civID /\ canSupply(st, p, requirement)}

\* The candidates at which createTradeRoutes emits a trader.
Emitting(st, civID, c, requirement, tree) ==
  {p \in Candidates(st, civID, c, requirement, tree) :
     findRoute(tree.paths, tree.dst, p, c).found}

\* The keys in any order, as if posKeys were not sorted.
UnsortedOrders(keys, dst) ==
  {o \in [1 .. Cardinality(keys) -> keys] :
     \A i, j \in 1 .. Cardinality(keys) : i < j => o[i] # o[j]}

\* The orders the sort of posKeys can leave the emitting keys in: increasing
\* dst, keys of equal dst in any order (the comparator never answers 0).
SortedOrders(keys, dst) ==
  {o \in [1 .. Cardinality(keys) -> keys] :
     /\ \A i, j \in 1 .. Cardinality(keys) : i < j => o[i] # o[j] /\ dst[o[i]] <= dst[o[j]]}

\* Map.createTradeRoutes(civID, coords, sink, requirement) with range 5, mode 0.
createTradeRoutes(st, civID, c, sink, requirement, order) ==
  Bind(getPathTree(st.tiles, c, 5, LAND), LAMBDA tree :
    TradeRoutesLoop(st, civID, c, sink, requirement, tree, order, 1))

\* Map.startConstructionAt(coords, improvementType, ownerID)
startConstructionAt(st, p, improvementType, ownerID, order) ==
  IF OwnerCiv(st, p) # ownerID THEN st
  ELSE
    Bind([st EXCEPT !.imps = Append(@, NewImprovement("worksite", st.tiles[p].baseYield)),
                    !.tiles[p].improvement = Len(st.imps) + 1], LAMBDA s1 :
      Bind(startErrandAt(s1, p, s1.tiles[p].improvement, "construction", improvementType, NullPos),
        LAMBDA s2 :
        Bind(createTradeRoutes(s2, ownerID, p, s2.tiles[p].improvement,
                               s2.imps[s2.tiles[p].improvement].errand[1].cost, order),
          LAMBDA s3 : tileUpdate(s3, p))))

\* Improvement.trainableUnitClassTable and getTrainableUnitClasses
trainableUnitClassTable(type) ==
  CASE type = "settlement" -> {"civillian"}
    [] type = "encampment" -> {"melee", "ranged", "recon"}
    [] OTHER               -> {}

\* Unit.promotionClassTable: the promotion class of each unit type.
TrainableTypes == {"settler", "scout", "warrior"}
promotionClassTable(unitType) ==
  CASE unitType = "settler" -> "civillian"
    [] unitType = "scout"   -> "recon"
    [] unitType = "warrior" -> "melee"
    [] OTHER                -> "none"

\* Tile.getTrainableUnitTypes(): the unit types whose promotion class the
\* tile's improvement trains.
getTrainableUnitTypes(st, p) ==
  IF st.tiles[p].improvement = NoImp THEN {}
  ELSE {t \in TrainableTypes :
          promotionClassTable(t) \in trainableUnitClassTable(st.imps[st.tiles[p].improvement].type)}

\* Improvement.researchableKnowledgeBranchTable and getResearchableKnowledgeBranches
researchableKnowledgeBranchTable(type) ==
  IF type = "campus" THEN {"offense", "defense", "civics", "development"} ELSE {}

\* Improvement.getResearchableKnowledgeNames()
getResearchableKnowledgeNames(imp) ==
  {k.name : k \in {k \in KnowledgeList : k.branch \in researchableKnowledgeBranchTable(imp.type)}}

\* The errand an accepted train or research action starts on the tile's
\* improvement, with its trade routes.
StartErrandWithRoutes(st, p, type, option, ownerID, order) ==
  Bind(startErrandAt(st, p, st.tiles[p].improvement, type, option, p), LAMBDA s1 :
    createTradeRoutes(s1, ownerID, p, s1.tiles[p].improvement,
                      s1.imps[s1.tiles[p].improvement].errand[1].cost, order))

\* The checks of Map.trainUnitAt before it starts an errand.
TrainAccepted(st, p, unitType, ownerID) ==
  /\ OwnerCiv(st, p) = ownerID /\ st.tiles[p].improvement # NoImp
  /\ unitType \in getTrainableUnitTypes(st, p)
  /\ st.imps[st.tiles[p].improvement].errand = << >>

\* Map.trainUnitAt(coords, unitType, ownerID): the tileUpdate at the end is
\* outside every check.
trainUnitAt(st, p, unitType, ownerID, order) ==
  Bind(IF TrainAccepted(st, p, unitType, ownerID)
         THEN StartErrandWithRoutes(st, p, "unit_training", unitType, ownerID, order)
         ELSE st,
    LAMBDA s1 : tileUpdate(s1, p))

\* The checks of Map.researchKnowledgeAt before it starts an errand.
ResearchAccepted(st, p, knowledgeName, ownerID) ==
  /\ OwnerCiv(st, p) = ownerID /\ st.tiles[p].improvement # NoImp
  /\ knowledgeName \in getResearchableKnowledgeNames(st.imps[st.tiles[p].improvement])
  /\ st.imps[st.tiles[p].improvement].errand = << >>

\* Map.researchKnowledgeAt(coords, knowledgeName, ownerID)
researchKnowledgeAt(st, p, knowledgeName, ownerID, order) ==
  Bind(IF ResearchAccepted(st, p, knowledgeName, ownerID)
         THEN StartErrandWithRoutes(st, p, "research", knowledgeName, ownerID, order)
         ELSE st,
    LAMBDA s1 : tileUpdate(s1, p))

\* ------------------------------------------------------ Improvement.work
\* Trader.store(share): load up to capacity - carried; what does not fit is
\* the surplus.
TraderLoad(trader, share) ==
  [k \in ResourceKeys |-> Min(share[k], Max(trader.capacity[k] - trader.carried[k], 0))]

\* if (this.errand) without any look at the storage.
errandReadyAlways(imp) == imp.errand # << >>

\* if (this.errand) { if (this.storage.fulfills(this.errand.cost)) ...
errandReady(imp) == imp.errand # << >> /\ fulfills(imp.storage, imp.errand[1].cost)

\* The errand part of work(): complete a fulfilled errand, expire its
\* suppliers, pay the cost, reset the capacity; reset storedThisTurn.
WorkErrandPart(st, i) ==
  IF st.imps[i].errand = << >> THEN st
  ELSE IF errandReady(st.imps[i])
    THEN [st EXCEPT
            !.imps[i].errand[1].completed = TRUE,
            !.imps[i].errand[1].storedThisTurn = Yield(0, 0),
            !.imps[i].storage = YieldDecr(@, st.imps[i].errand[1].cost),
            !.imps[i].capacity = storeCapTable(st.imps[i].type),
            !.traderObjs = [t \in 1 .. Len(st.traderObjs) |->
                              IF InList(st.imps[i].suppliers, t)
                                THEN [st.traderObjs[t] EXCEPT !.expired = TRUE]
                                ELSE st.traderObjs[t]]]
    ELSE [st EXCEPT !.imps[i].errand[1].storedThisTurn = Yield(0, 0)]

\* What one pass of the trader loop of work() found and left: the trader, its
\* expired flag, the share it was handed, the store of the improvement and the
\* load of the trader before and after the pass.
Handing(before, after, i, t, traderShare) ==
  [ imp |-> i, t |-> t, expired |-> before.traderObjs[t].expired,
    traderShare |-> traderShare,
    storageBefore |-> before.imps[i].storage, storageAfter |-> after.imps[i].storage,
    carriedBefore |-> before.traderObjs[t].carried,
    carriedAfter |-> after.traderObjs[t].carried,
    listed |-> InList(after.imps[i].traders, t) ]

\* The trader loop of work() taking the whole share out of the store, the
\* surplus the trader returned included.
RECURSIVE WorkTradersWholeShare(_, _, _, _)
WorkTradersWholeShare(st, i, idx, traderCount) ==
  IF idx > Len(st.imps[i].traders) THEN st
  ELSE
    IF st.traderObjs[st.imps[i].traders[idx]].expired
      THEN Bind([st EXCEPT !.imps[i].traders =
                   SubSeq(@, 1, idx - 1) \o SubSeq(@, idx + 1, Len(@))],
             LAMBDA s1 :
               WorkTradersWholeShare([s1 EXCEPT !.handed =
                              Append(@, Handing(st, s1, i, st.imps[i].traders[idx],
                                                Yield(0, 0)))],
                           i, idx, traderCount - 1))
      ELSE
        Bind([t |-> st.imps[i].traders[idx],
              traderShare |-> divNumber(st.imps[i].storage, traderCount)], LAMBDA n :
          Bind(TraderLoad(st.traderObjs[n.t], n.traderShare), LAMBDA loaded :
            Bind([st EXCEPT
                    !.traderObjs[n.t].carried = YieldAdd(@, loaded),
                    !.imps[i].storage = YieldDecr(@, n.traderShare)],
              LAMBDA s1 :
                WorkTradersWholeShare([s1 EXCEPT !.handed =
                               Append(@, Handing(st, s1, i, n.t, n.traderShare))],
                            i, idx + 1, traderCount - 1))))

\* The trader loop of work(): drop expired traders, hand every other trader
\* its share of the storage.
RECURSIVE WorkTraders(_, _, _, _)
WorkTraders(st, i, idx, traderCount) ==
  IF idx > Len(st.imps[i].traders) THEN st
  ELSE
    IF st.traderObjs[st.imps[i].traders[idx]].expired
      THEN Bind([st EXCEPT !.imps[i].traders =
                   SubSeq(@, 1, idx - 1) \o SubSeq(@, idx + 1, Len(@))],
             LAMBDA s1 :
               WorkTraders([s1 EXCEPT !.handed =
                              Append(@, Handing(st, s1, i, st.imps[i].traders[idx],
                                                Yield(0, 0)))],
                           i, idx, traderCount - 1))
      ELSE
        Bind([t |-> st.imps[i].traders[idx],
              traderShare |-> divNumber(st.imps[i].storage, traderCount)], LAMBDA n :
          Bind(TraderLoad(st.traderObjs[n.t], n.traderShare), LAMBDA loaded :
            Bind([st EXCEPT
                    !.traderObjs[n.t].carried = YieldAdd(@, loaded),
                    !.imps[i].storage =
                       YieldDecr(@, YieldDecr(n.traderShare,
                                     [k \in ResourceKeys |-> n.traderShare[k] - loaded[k]]))],
              LAMBDA s1 :
                WorkTraders([s1 EXCEPT !.handed =
                               Append(@, Handing(st, s1, i, n.t, n.traderShare))],
                            i, idx + 1, traderCount - 1))))

\* Improvement.store(resources) noting the resources in the errand without
\* putting them in the store.
storeNotedOnly(st, i, resources) ==
  [st EXCEPT !.imps[i].errand = IF @ = << >> THEN @
                                ELSE << [@[1] EXCEPT !.storedThisTurn = YieldAdd(@, resources)] >>]

\* Improvement.store(resources)
store(st, i, resources) ==
  [st EXCEPT !.imps[i].storage = YieldAdd(@, resources),
             !.imps[i].errand = IF @ = << >> THEN @
                                ELSE << [@[1] EXCEPT !.storedThisTurn = YieldAdd(@, resources)] >>]

\* ResourceStore.cap
cap(st, i) == [st EXCEPT !.imps[i].storage = YieldMin(@, st.imps[i].capacity)]

\* work() without its last statement.
workNoCap(st, i) ==
  Bind(WorkErrandPart(st, i), LAMBDA s1 :
    Bind(WorkTraders(s1, i, 1, Len(s1.imps[i].traders)), LAMBDA s2 :
      store(s2, i, s2.imps[i].yield)))

\* Improvement.work()
work(st, i) == Bind(workNoCap(st, i), LAMBDA s1 : cap(s1, i))

\* Tile.addKnowledge(knowledge, amount, 0.1, maxPoints): the points grow by
\* the amount up to maxPoints and never shrink; points at or above maxPoints
\* stay as they are.
addKnowledge(st, p, name, amount, maxPoints) ==
  [st EXCEPT !.know[p][name] = IF @ >= maxPoints THEN @ ELSE Min(@ + amount, maxPoints)]

\* The points a completed research credits, the points at which a knowledge
\* is complete, and the points a tile spills to a neighbour in a turn.
RESEARCH_POINTS == 2
KNOWLEDGE_MAX == 3
SPILLOVER_POINTS == 1

\* The unit a completed training spawns: a unit of the civ and the type that
\* is not in the game, 0 when the game has none left.
SpawnUnit(st, civID, type) ==
  IF \E u \in UnitIDs : UnitCiv(u) = civID /\ UnitType(u) = type /\ ~InList(st.civs[civID], u)
    THEN CHOOSE u \in UnitIDs :
           UnitCiv(u) = civID /\ UnitType(u) = type /\ ~InList(st.civs[civID], u)
    ELSE NoUnit

\* The effect of errand.complete(world, map, tile): a construction gives the
\* tile a new improvement of the errand's option, a training spawns a unit of
\* the option at the errand's location, a research credits the option to the
\* tile.
CompleteEffect(st, p, errand) ==
    CASE errand.type = "construction" ->
           tileUpdate([st EXCEPT
             !.imps = Append(@, NewImprovement(errand.option, st.tiles[p].baseYield)),
             !.tiles[p].improvement = Len(st.imps) + 1], p)
      [] errand.type = "unit_training" ->
           Bind(SpawnUnit(st, OwnerCiv(st, p), errand.option), LAMBDA u :
             IF u = NoUnit THEN st
             ELSE addUnit(st, u, IF errand.location = NullPos THEN p ELSE errand.location))
      [] OTHER ->
           addKnowledge(st, p, errand.option, RESEARCH_POINTS, KNOWLEDGE_MAX)

\* errand.complete(world, map, tile), noted in the list of completions.
completeErrand(s0, p) ==
  Bind([ errand |-> s0.imps[s0.tiles[p].improvement].errand[1],
         st |-> [s0 EXCEPT !.done = Append(@,
                   [ imp |-> s0.tiles[p].improvement, p |-> p,
                     type |-> s0.imps[s0.tiles[p].improvement].errand[1].type,
                     option |-> s0.imps[s0.tiles[p].improvement].errand[1].option ])] ],
    LAMBDA n : CompleteEffect(n.st, p, n.errand))


\* What a work() call found and left: the improvement, its store and errand
\* on entry, its store and errand on return.
WorkRecord(i, before, after, handed) ==
  [ imp |-> i, handed |-> handed,
    storageBefore |-> before.storage, errandBefore |-> before.errand,
    storageAfter |-> after.storage, capacityAfter |-> after.capacity,
    errandAfter |-> after.errand ]

\* The callback of Map.turn without its delete of the errand.
turnImprovementKeepErrand(st, p) ==
  IF st.tiles[p].improvement = NoImp THEN st
  ELSE
    Bind(work(st, st.tiles[p].improvement), LAMBDA w :
      Bind([w EXCEPT !.log = Append(@, WorkRecord(st.tiles[p].improvement,
                                                  st.imps[st.tiles[p].improvement],
                                                  w.imps[st.tiles[p].improvement],
                                                  w.handed)),
                     !.handed = << >>],
        LAMBDA s1 :
          IF s1.imps[s1.tiles[p].improvement].errand # << >>
               /\ s1.imps[s1.tiles[p].improvement].errand[1].completed
            THEN completeErrand(s1, p)
            ELSE s1))

\* The callback of Map.turn for the improvement of the tile at p: work, then
\* complete a completed errand and delete the errand of the improvement the
\* tile then holds.
turnImprovement(st, p) ==
  IF st.tiles[p].improvement = NoImp THEN st
  ELSE
    Bind(work(st, st.tiles[p].improvement), LAMBDA w :
      Bind([w EXCEPT !.log = Append(@, WorkRecord(st.tiles[p].improvement,
                                                  st.imps[st.tiles[p].improvement],
                                                  w.imps[st.tiles[p].improvement],
                                                  w.handed)),
                     !.handed = << >>],
        LAMBDA s1 :
          IF s1.imps[s1.tiles[p].improvement].errand # << >>
               /\ s1.imps[s1.tiles[p].improvement].errand[1].completed
            THEN Bind(completeErrand(s1, p), LAMBDA s2 :
                   [s2 EXCEPT !.imps[s2.tiles[p].improvement].errand = << >>])
            ELSE s1))

\* tile.getKnowledgeSpillover() of a tile with unfinished knowledges: the
\* names of the knowledges the tile has points of, short of the maximum.
getKnowledgeSpillover(st, p) ==
  {n \in KnowledgeNames : st.know[p][n] > 0 /\ st.know[p][n] < KNOWLEDGE_MAX}

\* for (const neighborCoords of this.getNeighborsCoords(coords))
\*   this.getTile(neighborCoords).addKnowledge(knowledge, spilloverPoints, 0.1, maxPoints)
RECURSIVE SpillTo(_, _, _, _, _)
SpillTo(st, p, name, list, i) ==
  IF i > Len(list) THEN st
  ELSE Bind(addKnowledge(st, list[i], name, SPILLOVER_POINTS, KNOWLEDGE_MAX), LAMBDA s1 :
         Bind([s1 EXCEPT !.spill = Append(@, [from |-> p, to |-> list[i], name |-> name])],
           LAMBDA s2 : SpillTo(s2, p, name, list, i + 1)))

\* for (const name in spillover) over the names[i..] the tile spills.
RECURSIVE SpillNames(_, _, _, _)
SpillNames(st, p, names, i) ==
  IF i > Len(names) THEN st
  ELSE Bind(SpillTo(st, p, names[i], getNeighborsCoords(coords(p), 1, Positions), 1),
         LAMBDA s1 : SpillNames(s1, p, names, i + 1))

\* The knowledge part of the callback of Map.turn for the tile at p.
spillover(st, p) ==
  IF getKnowledgeSpillover(st, p) = {} THEN st
  ELSE SpillNames(st, p, SelectSeq(KnowledgeOrder, LAMBDA n : n \in getKnowledgeSpillover(st, p)), 1)

\* The callback of Map.turn for the tile at p.
turnTile(st, p) == Bind(turnImprovement(st, p), LAMBDA s1 : spillover(s1, p))

\* The passes lo..hi of the loop of forEachTile, the callback being the one
\* of Map.turn: the passes of the first half in their order, then the passes
\* of the second half.
RECURSIVE TurnTilesBetween(_, _, _, _)
TurnTilesBetween(st, list, lo, hi) ==
  IF lo > hi THEN st
  ELSE IF lo = hi THEN turnTile(st, list[lo])
  ELSE Bind(TurnTilesBetween(st, list, lo, (lo + hi) \div 2), LAMBDA s1 :
         TurnTilesBetween(s1, list, (lo + hi) \div 2 + 1, hi))

\* forEachTile(callback) of Map.turn over the positions list[i..].
TurnTiles(st, list, i) == TurnTilesBetween(st, list, i, Len(list))

\* The positions of a set in increasing order.
RECURSIVE Ascending(_)
Ascending(S) ==
  IF S = {} THEN << >>
  ELSE Bind(CHOOSE x \in S : \A y \in S : x <= y, LAMBDA m : << m >> \o Ascending(S \ {m}))

\* Trader.shunt: advance speed steps along the route; on arrival at the sink
\* unload what is carried into the sink and turn back; back at the producer
\* turn toward the sink again.  An expired trader stays where it is.
shunt(st, t) ==
  IF st.traderObjs[t].expired THEN st
  ELSE IF ~st.traderObjs[t].returning
    THEN Bind(Min(st.traderObjs[t].position + st.traderObjs[t].speed,
                  Len(st.traderObjs[t].path)), LAMBDA next :
           IF next = Len(st.traderObjs[t].path)
             THEN Bind(store(st, st.traderObjs[t].sink, st.traderObjs[t].carried), LAMBDA s1 :
                    [s1 EXCEPT !.traderObjs[t].position = next,
                               !.traderObjs[t].carried = Yield(0, 0),
                               !.traderObjs[t].returning = TRUE])
             ELSE [st EXCEPT !.traderObjs[t].position = next])
    ELSE Bind(Max(st.traderObjs[t].position - st.traderObjs[t].speed, 1), LAMBDA next :
           [st EXCEPT !.traderObjs[t].position = next,
                      !.traderObjs[t].returning = (next # 1)])

\* The trader loop of Map.turn without the i-- after a splice.
RECURSIVE TurnTradersSkipping(_, _)
TurnTradersSkipping(st, i) ==
  IF i > Len(st.traders) THEN st
  ELSE Bind(shunt(st, st.traders[i]), LAMBDA s1 :
         IF s1.traderObjs[s1.traders[i]].expired
           THEN Bind([s1 EXCEPT !.traders = SubSeq(@, 1, i - 1) \o SubSeq(@, i + 1, Len(@))],
                  LAMBDA s2 : TurnTradersSkipping(s2, i + 1))
           ELSE TurnTradersSkipping(s1, i + 1))

\* The trader loop of Map.turn: shunt each trader and splice out the expired.
RECURSIVE TurnTraders(_, _)
TurnTraders(st, i) ==
  IF i > Len(st.traders) THEN st
  ELSE Bind(shunt(st, st.traders[i]), LAMBDA s1 :
         IF s1.traderObjs[s1.traders[i]].expired
           THEN Bind([s1 EXCEPT !.traders = SubSeq(@, 1, i - 1) \o SubSeq(@, i + 1, Len(@))],
                  LAMBDA s2 : TurnTraders(s2, i))
           ELSE TurnTraders(s1, i + 1))

\* Map.turn(world)
turn(st) ==
  Bind(TurnTiles(st, [i \in 1 .. NumTiles |-> i - 1], 1),
    LAMBDA s1 : TurnTraders(s1, 1))

\* ------------------------------------------------------------------ views
\* Improvement.getData
ImprovementGetData(imp) ==
  [ type |-> imp.type, pillaged |-> imp.pillaged,
    storage |-> [value |-> imp.storage, capacity |-> imp.capacity],
    errand |-> imp.errand, isNatural |-> imp.isNatural ]

\* City.getData
CityGetData(city) == [civID |-> city.civID, center |-> city.center]

\* Unit.getData
UnitGetData(unit) ==
  [type |-> unit.type, hp |-> unit.hp, movement |-> unit.movement, civID |-> unit.civID]

\* Tile.getTileYield
getTileYield(tile, is) ==
  IF tile.improvement # NoImp THEN YieldAdd(tile.baseYield, is[tile.improvement].yield)
  ELSE tile.baseYield

\* Tile.getDiscoveredData; an absent improvement or owner is the empty sequence.
getDiscoveredData(tile, is, cs) ==
  [ type |-> tile.type,
    movementCost |-> tileMovementCostTable(tile.type),
    improvement |-> IF tile.improvement = NoImp THEN << >>
                    ELSE << ImprovementGetData(is[tile.improvement]) >>,
    owner |-> IF tile.owner = NoCity THEN << >> ELSE << CityGetData(cs[tile.owner]) >>,
    yield |-> getTileYield(tile, is) ]

\* Tile.getVisibleData: the discovered data plus the unit and visible: true.
getVisibleData(tile, is, cs, us) ==
  LET d == getDiscoveredData(tile, is, cs)
  IN [ type |-> d.type, movementCost |-> d.movementCost, improvement |-> d.improvement,
       owner |-> d.owner, yield |-> d.yield,
       unit |-> IF tile.unit = NoUnit THEN << >> ELSE << UnitGetData(us[tile.unit]) >>,
       visible |-> TRUE ]

\* The null that stands for an undiscovered tile.
NullData == [null |-> TRUE]

\* getCivTile without the visibility test: every discovered tile shows its unit.
getCivTileNoFog(civID, tile, is, cs, us) ==
  IF tile.discoveredBy[civID] THEN getVisibleData(tile, is, cs, us) ELSE NullData

\* Map.getCivTile: a counter is tested for truthiness, so any nonzero counter
\* selects the visible data.
getCivTile(civID, tile, is, cs, us) ==
  IF tile.discoveredBy[civID]
    THEN IF tile.visibleTo[civID] # 0
           THEN getVisibleData(tile, is, cs, us)
           ELSE getDiscoveredData(tile, is, cs)
    ELSE NullData

\* Map.getCivMap
getCivMap(civID, ts, is, cs, us) ==
  [i \in 1 .. NumTiles |-> getCivTile(civID, ts[i - 1], is, cs, us)]

\* Game.sendUpdates: the events sent to civID for the queued updates; each
\* closure reads the tile when it is called.
UpdatesFor(civID, queue, ts, is, cs, us) ==
  [i \in 1 .. Len(queue) |->
     [name |-> "tileUpdate", coords |-> queue[i],
      tile |-> getCivTile(civID, ts[queue[i]], is, cs, us)]]

\* ------------------------------------------------------------ construction
\* The improvements the generated map starts with: one natural forest.
TileImprovementOf(p) == IF p = 33 THEN "forest" ELSE "none"

\* The world before the Game constructor places units: the generated tiles,
\* no city, every unit unplaced.
BlankState ==
  [ tiles   |-> [p \in Positions |->
                   IF TileImprovementOf(p) # "none"
                     THEN [NewTile(p) EXCEPT !.improvement = 1] ELSE NewTile(p)],
    updates |-> << >>,
    ever    |-> {},
    units   |-> [u \in UnitIDs |-> NewUnit(u)],
    civs    |-> [c \in CivIDs |-> << >>],
    cities  |-> << >>,
    imps    |-> << NewImprovement("forest", BaseYieldOf(33)) >>,
    traderObjs |-> << >>,
    traders |-> << >>,
    log     |-> << >>,
    sent    |-> << >>,
    begun   |-> [c \in CivIDs |-> 0],
    know    |-> [p \in Positions |-> [n \in KnowledgeNames |-> 0]],
    spill   |-> << >>,
    done    |-> << >>,
    ok      |-> TRUE ]

\* Game.removeUnit(unit)
removeUnit(st, u) ==
  Bind([st EXCEPT !.civs[st.units[u].civID] = CivRemoveUnit(@, u)], LAMBDA s1 :
    moveUnitTo(s1, s1.imps, u, NullPos))

\* Civilization.newTurn: every unit of the civ gets its movement points.
unitMovementTable(type) == IF type = "settler" THEN 3 ELSE 5
newTurn(st, civID) ==
  [st EXCEPT !.units = [u \in UnitIDs |->
     IF InList(st.civs[civID], u)
       THEN [st.units[u] EXCEPT !.movement = unitMovementTable(st.units[u].type)]
       ELSE st.units[u]]]

\* Game.beginTurnForCiv up to the send: newTurn, then the visibility rebuild.
beginTurnForCiv(st, civID) ==
  Bind(newTurn(st, civID), LAMBDA s1 : updateCivTileVisibility(s1, s1.units, s1.civs, civID))

\* -------------------------------------------------------------- messages
\* An event of a message; only tileUpdate events carry coords.
Event(name) == [name |-> name, p |-> NullPos]
HasEvent(update, name) == \E i \in 1 .. Len(update) : update[i].name = name

\* Object.values(this.players).find(player => player.civID === civID): the
\* index of the civ's player, 0 when there is none.
PlayerOf(ps, civID) ==
  IF \E i \in 1 .. Len(ps) : ps[i].civID = civID
    THEN CHOOSE i \in 1 .. Len(ps) :
           ps[i].civID = civID /\ \A j \in 1 .. i - 1 : ps[j].civID # civID
    ELSE 0

\* The usernames players connect with.
Usernames == << "ann", "bob", "cy", "dee" >>

\* The null newPlayerCivID returns.
NoCivID == -1

\* Game.connectPlayer(username, player): this.players[username] = player
\* puts the player in the place of the username, last for a new username.
connectPlayer(ps, username, civID, isAI) ==
  IF \E i \in 1 .. Len(ps) : ps[i].username = username
    THEN [i \in 1 .. Len(ps) |->
            IF ps[i].username = username
              THEN [username |-> username, civID |-> civID, isAI |-> isAI]
              ELSE ps[i]]
    ELSE Append(ps, [username |-> username, civID |-> civID, isAI |-> isAI])

\* Game.newPlayerCivID() of the older build: the username is not looked at.
newPlayerCivIDUnnamed(ps, username) ==
  Bind(CivIDs \ {ps[i].civID : i \in 1 .. Len(ps)}, LAMBDA freeIDs :
    IF freeIDs # {} THEN CHOOSE m \in freeIDs : \A n \in freeIDs : m <= n
    ELSE NoCivID)

\* Game.newPlayerCivID(username): the civID of the player of the username,
\* else the smallest civID no player holds, else null.
newPlayerCivID(ps, username) ==
  IF \E i \in 1 .. Len(ps) : ps[i].username = username
    THEN ps[CHOOSE i \in 1 .. Len(ps) : ps[i].username = username].civID
    ELSE Bind(CivIDs \ {ps[i].civID : i \in 1 .. Len(ps)}, LAMBDA freeIDs :
           IF freeIDs # {} THEN CHOOSE m \in freeIDs : \A n \in freeIDs : m <= n
           ELSE NoCivID)

\* Game.sendToCiv(civID, msg): nothing is sent without a player for the civ,
\* and Player.send of a player without connection sends nothing.
sendToCiv(st, ps, civID, update) ==
  IF PlayerOf(ps, civID) = 0 THEN st
  ELSE IF ps[PlayerOf(ps, civID)].isAI THEN st
  ELSE [st EXCEPT
          !.sent = Append(@, [to |-> civID, update |-> update, queued |-> Len(st.updates)]),
          !.begun[civID] = IF HasEvent(update, "beginTurn") THEN Len(st.updates) ELSE @]

\* Map.getUpdates(): splice(0) returns every element and leaves none.
getUpdatesKeepLast(queue) ==
  IF queue = << >> THEN [returned |-> << >>, left |-> << >>]
  ELSE [returned |-> SubSeq(queue, 1, Len(queue) - 1), left |-> << queue[Len(queue)] >>]

getUpdates(queue) == [returned |-> queue, left |-> << >>]

\* updates.map(updateFn => updateFn(civID)): one tileUpdate event per update.
TileUpdateEvents(returned) ==
  [i \in 1 .. Len(returned) |-> [name |-> "tileUpdate", p |-> returned[i]]]

\* this.forEachCivID((civID) => this.sendToCiv(civID, { update: ... }))
RECURSIVE SendToEachCiv(_, _, _, _)
SendToEachCiv(st, ps, update, civID) ==
  IF civID \notin CivIDs THEN st
  ELSE Bind(sendToCiv(st, ps, civID, update), LAMBDA s1 : SendToEachCiv(s1, ps, update, civID + 1))

\* Game.sendUpdates()
sendUpdates(st, ps) ==
  Bind(getUpdates(st.updates), LAMBDA got :
    SendToEachCiv([st EXCEPT !.updates = got.left, !.begun = [c \in CivIDs |-> 0]],
                  ps, TileUpdateEvents(got.returned), 0))

\* Game.resumeTurnForCiv(civID)
resumeTurnForCiv(st, ps, civID) ==
  sendToCiv(st, ps, civID, << Event("setMap"), Event("unitPositions"), Event("beginTurn") >>)

\* Game.endTurnForCiv(civID): Civilization.endTurn() changes nothing of the map.
endTurnForCiv(st, ps, civID) == sendToCiv(st, ps, civID, << Event("endTurn") >>)

\* this.forEachPlayer(player => { if (!player.isAI()) this.endTurnForCiv(player.civID) })
RECURSIVE EndTurnPlayers(_, _, _)
EndTurnPlayers(st, ps, i) ==
  IF i > Len(ps) THEN st
  ELSE Bind(IF ps[i].isAI THEN st ELSE endTurnForCiv(st, ps, ps[i].civID),
         LAMBDA s1 : EndTurnPlayers(s1, ps, i + 1))

\* this.forEachPlayer(player => { if (!player.isAI()) this.beginTurnForCiv(player.civID) })
RECURSIVE BeginTurnPlayers(_, _, _)
BeginTurnPlayers(st, ps, i) ==
  IF i > Len(ps) THEN st
  ELSE Bind(IF ps[i].isAI THEN st
            ELSE Bind(beginTurnForCiv(st, ps[i].civID),
                   LAMBDA s0 : resumeTurnForCiv(s0, ps, ps[i].civID)),
         LAMBDA s1 : BeginTurnPlayers(s1, ps, i + 1))

\* this.world.turn(): World.turn runs Map.turn; the mark records the length
\* of the update queue at the call.
worldTurn(st) ==
  turn([st EXCEPT !.sent = Append(@, [to |-> -1, update |-> << Event("world.turn") >>,
                                      queued |-> Len(st.updates)])])

\* endTurn with the players' turns begun before world.turn().
endTurnBeginFirst(st, ps) ==
  Bind(EndTurnPlayers(st, ps, 1), LAMBDA s1 :
    Bind(BeginTurnPlayers(s1, ps, 1), LAMBDA s2 : worldTurn(s2)))

\* Game.endTurn()
endTurn(st, ps) ==
  Bind(EndTurnPlayers(st, ps, 1), LAMBDA s1 :
    Bind(worldTurn(s1), LAMBDA s2 : BeginTurnPlayers(s2, ps, 1)))

\* The Game constructor: for each civ, add a starting unit and rebuild the
\* civ's visibility.  The starting coords are taken where the whole vision
\* range of the unit lies on this map.
StartPos(u) == IF u = 1 THEN 19 ELSE 22
StartUnit(civID) == CHOOSE v \in {1, 2} : UnitCiv(v) = civID
RECURSIVE ConstructCivs(_, _)
ConstructCivs(st, i) ==
  IF i \notin CivIDs THEN st
  ELSE
    Bind(addUnit(st, StartUnit(i), StartPos(StartUnit(i))), LAMBDA s1 :
      Bind(updateCivTileVisibility(s1, s1.units, s1.civs, i), LAMBDA s2 :
        ConstructCivs(s2, i + 1)))
Constructed == ConstructCivs(BlankState, 0)

\* -------------------------------------------------------------- handlers
\* The state a handler starts from, and the state it leaves behind.
Cur ==
  [ tiles |-> tiles, updates |-> updates, ever |-> everVisible, units |-> units,
    civs |-> civs, cities |-> cities, imps |-> imps, traderObjs |-> traderObjs,
    traders |-> traders, log |-> << >>, handed |-> << >>, sent |-> << >>, begun |-> begun,
    know |-> knowledge, spill |-> << >>, done |-> << >>, ok |-> TRUE ]

\* The call a handler without coords and ownerID leaves recorded.
NoCall == [p |-> NullPos, option |-> "", ownerID |-> -1, ret |-> TRUE]

\* No map query was called yet.
NoQuery == [fn |-> "", c |-> NullPos, r |-> 0, accept |-> {}, mode |-> 0, flat |-> FALSE,
            answered |-> FALSE, ret |-> << >>]

\* What a handler leaves behind, the count of the steps aside.
CommitState(r, name, threw, call, ps) ==
  /\ tiles' = r.tiles
  /\ updates' = r.updates
  /\ everVisible' = r.ever
  /\ units' = r.units
  /\ civs' = r.civs
  /\ cities' = r.cities
  /\ imps' = r.imps
  /\ traderObjs' = r.traderObjs
  /\ traders' = r.traders
  /\ crashed' = threw
  /\ lastHandler' = name
  /\ workLog' = r.log
  /\ sent' = r.sent
  /\ begun' = r.begun
  /\ knowledge' = r.know
  /\ spilled' = r.spill
  /\ completions' = r.done
  /\ query' = query
  /\ lastCall' = call
  /\ players' = ps

CommitAll(r, name, threw, call, ps) ==
  /\ CommitState(r, name, threw, call, ps)
  /\ steps' = steps - 1

CommitCall(r, name, threw, call) == CommitAll(r, name, threw, call, players)

Commit(r, name, threw) == CommitCall(r, name, threw, NoCall)

\* A handler runs while the server is up.
Ready == ~crashed /\ steps > 0

NewWorld ==
  /\ tiles = Constructed.tiles
  /\ updates = Constructed.updates
  /\ everVisible = Constructed.ever
  /\ units = Constructed.units
  /\ civs = Constructed.civs
  /\ cities = Constructed.cities
  /\ imps = Constructed.imps
  /\ traderObjs = Constructed.traderObjs
  /\ traders = Constructed.traders
  /\ crashed = FALSE
  /\ lastHandler = "constructor"
  /\ workLog = << >>
  /\ players = << >>
  /\ sent = << >>
  /\ begun = [c \in CivIDs |-> Len(Constructed.updates)]
  /\ knowledge = Constructed.know
  /\ spilled = << >>
  /\ completions = << >>
  /\ lastCall = NoCall

NewGame == NewWorld /\ query = NoQuery

Init == NewGame /\ steps = MaxSteps

\* The inputs the handlers are called with.
MoveDests == {19, 27}
AddDests == {27}
SettleCoords == {33, 45}
OwnerCoords == {39}
BuildCoords == {33}
BuildTypes == {"farm", "forest"}

InGame(u) == InList(civs[units[u].civID], u)

\* Map.moveUnitTo(unit, coords) for a unit of the game.
MoveUnitTo(u, c) ==
  /\ Ready /\ InGame(u) /\ Placed(units, u)
  /\ \E r \in {moveUnitTo(Cur, imps, u, c)} : Commit(r, "moveUnitTo", ~r.ok)

\* Game.addUnit(unit, coords) for a new unit.
AddUnit(u, c) ==
  /\ Ready /\ ~InGame(u) /\ ~Placed(units, u)
  /\ \E r \in {addUnit(Cur, u, c)} : Commit(r, "addUnit", ~r.ok)

\* Game.removeUnit(unit)
RemoveUnit(u) ==
  /\ Ready /\ InGame(u)
  /\ \E r \in {removeUnit(Cur, u)} : Commit(r, "removeUnit", ~r.ok)

\* Map.setTileOwner(coords, owner, overwrite)
SetTileOwner(p, owner, overwrite) ==
  /\ Ready /\ owner \in 1 .. Len(cities)
  /\ \E r \in {setTileOwner(Cur, p, owner, overwrite)} :
       CommitCall(r, "setTileOwner", FALSE,
                  [p |-> p, option |-> "", ownerID |-> owner, ret |-> overwrite])

\* Map.settleCityAt(coords, name, civID); a refused settle changes nothing.
SettleCityAt(p, civID) ==
  /\ Ready /\ Len(cities) < MaxCities
  /\ \E r \in {settleCityAt(Cur, p, civID)} :
       CommitCall([r EXCEPT !.ok = TRUE], "settleCityAt", FALSE,
                  [p |-> p, option |-> "", ownerID |-> civID, ret |-> r.ok])

\* Map.buildImprovementAt(coords, type, ownerID)
BuildImprovementAt(p, type, ownerID) ==
  /\ Ready
  /\ \E r \in {buildImprovementAt(Cur, p, type, ownerID)} :
       CommitCall(r, "buildImprovementAt", FALSE,
                  [p |-> p, option |-> type, ownerID |-> ownerID, ret |-> TRUE])

\* Game.beginTurnForCiv(civID)
BeginTurnForCiv(civID) ==
  /\ Ready
  /\ \E r0 \in {beginTurnForCiv(Cur, civID)} :
       \E r \in {resumeTurnForCiv(r0, players, civID)} :
         CommitCall(r, "updateCivTileVisibility", FALSE,
                    [p |-> NullPos, option |-> "", ownerID |-> civID, ret |-> TRUE])

\* Game.sendUpdates: Map.getUpdates empties the queue.
SendUpdates ==
  /\ Ready /\ updates # << >>
  /\ \E r \in {sendUpdates(Cur, players)} : Commit(r, "sendUpdates", FALSE)

Next ==
  \/ \E u \in UnitIDs, c \in MoveDests : MoveUnitTo(u, c)
  \/ \E u \in UnitIDs, c \in AddDests : AddUnit(u, c)
  \/ \E u \in UnitIDs : RemoveUnit(u)
  \/ \E p \in OwnerCoords, owner \in 1 .. MaxCities, overwrite \in BOOLEAN :
       SetTileOwner(p, owner, overwrite)
  \/ \E p \in SettleCoords, civID \in CivIDs : SettleCityAt(p, civID)
  \/ \E p \in BuildCoords, type \in BuildTypes, civID \in CivIDs :
       BuildImprovementAt(p, type, civID)
  \/ \E civID \in CivIDs : BeginTurnForCiv(civID)
  \/ SendUpdates

Spec == Init /\ [][Next]_vars

\* ------------------------------------------------------------ visibility
\* C1: when a handler returns, visibleTo[civ] >= 0 for every tile and civ.
C1_CountersNonNegative ==
  ~crashed => \A p \in Positions, c \in CivIDs : tiles[p].visibleTo[c] >= 0

\* The units of civ c whose current vision set contains the tile at p.
SeenBy(p, c) ==
  {u \in UnitIDs :
     /\ InGame(u) /\ units[u].civID = c /\ Placed(units, u)
     /\ InList(getVisibleTilesCoords(tiles, imps, units[u].coords, units[u].visionRange).list, p)}

\* C2: after a completed moveUnitTo, visibleTo[civ] of every tile is the number
\* of the civ's units whose current vision set contains the tile.
C2_CounterIsVisionCount ==
  (lastHandler = "moveUnitTo" /\ ~crashed) =>
     \A p \in Positions, c \in CivIDs : tiles[p].visibleTo[c] = Cardinality(SeenBy(p, c))

\* C3: a tile discovered by a civ has had a strictly positive counter for that
\* civ after some setVisibility call.
C3_DiscoveredWasVisible ==
  \A p \in Positions, c \in CivIDs : tiles[p].discoveredBy[c] => << p, c >> \in everVisible

\* What getCivTile is specified to return: null when undiscovered, the visible
\* data exactly when the counter is strictly positive, else the discovered data.
CivTileAsSpecified(civID, tile) ==
  IF ~tile.discoveredBy[civID] THEN NullData
  ELSE IF tile.visibleTo[civID] > 0 THEN getVisibleData(tile, imps, cities, units)
  ELSE getDiscoveredData(tile, imps, cities)

\* C4: getCivTile returns null, the visible data or the discovered data as
\* specified, the discovered data also for a negative counter.
C4_CivTileBySign ==
  \A p \in Positions, c \in CivIDs :
     getCivTile(c, tiles[p], imps, cities, units) = CivTileAsSpecified(c, tiles[p])

\* C6: every placed unit is referenced by exactly one tile, and a tile's unit
\* has that tile's coords.
C6_UnitSlotConsistent ==
  ~crashed =>
    /\ \A u \in UnitIDs : Placed(units, u) => Cardinality({p \in Positions : tiles[p].unit = u}) = 1
    /\ \A p \in Positions : tiles[p].unit # NoUnit => units[tiles[p].unit].coords = p

\* ---------------------------------------------------------- fog of war
\* The game with two civs moving next to each other: moves, a settle that
\* changes what is seen, turn starts and update broadcasts.
FogDests == {19, 27, 24}
InitFog == NewGame /\ steps = MaxFogSteps
NextFog ==
  \/ \E u \in UnitIDs, c \in FogDests : MoveUnitTo(u, c)
  \/ \E civID \in CivIDs : SettleCityAt(33, civID)
  \/ \E civID \in CivIDs : BeginTurnForCiv(civID)
  \/ SendUpdates
SpecFog == InitFog /\ [][NextFog]_vars

\* A tile is hidden from a civ when the civ has not discovered it or its
\* counter for the civ is 0.
Hidden(civID, tile) == ~tile.discoveredBy[civID] \/ tile.visibleTo[civID] = 0

\* The tiles of a game that differs from this one only in that unit x (or no
\* unit) stands on every tile hidden from civID.
OtherUnits(civID, x) ==
  [p \in Positions |->
     IF Hidden(civID, tiles[p]) THEN [tiles[p] EXCEPT !.unit = x] ELSE tiles[p]]

\* C5: changing which unit stands on tiles hidden from a civ changes neither
\* the civ's getCivMap payload nor its tileUpdate payloads, and an undiscovered
\* tile yields null.
C5_FogHidesUnits ==
  \A c \in CivIDs :
    /\ \A x \in UnitIDs \cup {NoUnit} :
         LET other == OtherUnits(c, x)
         IN /\ getCivMap(c, other, imps, cities, units) = getCivMap(c, tiles, imps, cities, units)
            /\ UpdatesFor(c, updates, other, imps, cities, units)
                 = UpdatesFor(c, updates, tiles, imps, cities, units)
    /\ \A p \in Positions :
         ~tiles[p].discoveredBy[c] => getCivTile(c, tiles[p], imps, cities, units) = NullData

\* C5 witness: a unit of another civ stands on a tile the civ has discovered
\* but does not see, and an update for that tile is queued.
C5_HiddenUnitQueued ==
  \E c \in CivIDs, p \in Positions :
    /\ tiles[p].unit # NoUnit /\ units[tiles[p].unit].civID # c
    /\ tiles[p].discoveredBy[c] /\ tiles[p].visibleTo[c] = 0
    /\ InList(updates, p)
    /\ ~crashed

\* -------------------------------------------------------------- economy
\* A city, construction sites supplied by traders, and turns.
MaxEconSteps == 5
InitEcon == NewGame /\ steps = MaxEconSteps

\* The state startConstructionAt creates trade routes in.
WithWorksite(st, p) ==
  [st EXCEPT !.imps = Append(@, NewImprovement("worksite", st.tiles[p].baseYield)),
             !.tiles[p].improvement = Len(st.imps) + 1]

\* Map.startConstructionAt(coords, improvementType, ownerID); the sort of
\* createTradeRoutes may leave keys of equal distance in either order.
StartConstructionAt(p, improvementType, ownerID) ==
  /\ Ready
  /\ \E tree \in {getPathTree(tiles, p, 5, LAND)} :
       \E w \in {WithWorksite(Cur, p)}, cost \in {errandCostTable("construction", improvementType)} :
       \E keys \in {IF OwnerCiv(w, p) = ownerID
                      THEN Candidates(w, ownerID, p, cost, tree) ELSE {}} :
         \E order \in SortedOrders(keys, tree.dst) :
           \E r \in {startConstructionAt(Cur, p, improvementType, ownerID, order)} :
             CommitCall(r, "startConstructionAt", FALSE,
                        [p |-> p, option |-> improvementType, ownerID |-> ownerID, ret |-> TRUE])

\* Map.turn(world)
Turn ==
  /\ Ready
  /\ \E r \in {turn(Cur)} : Commit(r, "turn", FALSE)

EconSettle == {27}
EconSites == {28, 33}
EconTypes == {"farm", "encampment"}
NextEcon ==
  \/ \E p \in EconSettle : SettleCityAt(p, 0)
  \/ \E p \in EconSites, type \in EconTypes : StartConstructionAt(p, type, 0)
  \/ Turn
SpecEcon == InitEcon /\ [][NextEcon]_vars

\* ------------------------------------------------------------ save, load
\* Improvement.export: the storage is the store object, value and capacity.
ImprovementExport(imp) ==
  [ type |-> imp.type, pillaged |-> imp.pillaged, isNatural |-> imp.isNatural,
    yield |-> imp.yield,
    storage |-> [value |-> imp.storage, capacity |-> imp.capacity],
    errand |-> imp.errand ]

\* Improvement.import: a store of the saved capacity filled with the saved
\* amounts, the errand on that store, no trader and no supplier yet.
ImprovementImport(data) ==
  [ type |-> data.type, pillaged |-> data.pillaged, isNatural |-> data.isNatural,
    yield |-> data.yield,
    storage |-> YieldAdd(Yield(0, 0), data.storage.value),
    capacity |-> data.storage.capacity,
    errand |-> data.errand,
    traders |-> << >>, suppliers |-> << >> ]

\* Tile.export: terrain, elevation, base yield, the improvement, the unit and
\* the per-civ discovery flags and visibility counters; the owner is saved
\* with its city.
TileExport(tile, is) ==
  [ type |-> tile.type, height |-> tile.height, baseYield |-> tile.baseYield,
    unit |-> tile.unit,
    improvement |-> IF tile.improvement = NoImp THEN << >>
                    ELSE << ImprovementExport(is[tile.improvement]) >>,
    discoveredBy |-> tile.discoveredBy, visibleTo |-> tile.visibleTo ]

\* City.export: the owning civ, the center and the owned coords.
CityExport(city) == [civID |-> city.civID, center |-> city.center, tiles |-> city.tiles]

\* Trader.export: everything but the two improvements, which the route finds.
TraderExport(trader) ==
  [ civID |-> trader.civID, path |-> trader.path, length |-> trader.length,
    speed |-> trader.speed, capacity |-> trader.capacity, carried |-> trader.carried,
    expired |-> trader.expired, position |-> trader.position,
    returning |-> trader.returning ]

\* Map.export, with the units and civs World.export adds.
Export(st) ==
  [ height |-> Height, width |-> Width,
    tiles |-> [i \in 1 .. NumTiles |-> TileExport(st.tiles[i - 1], st.imps)],
    cities |-> [i \in 1 .. Len(st.cities) |-> CityExport(st.cities[i])],
    traders |-> [i \in 1 .. Len(st.traders) |-> TraderExport(st.traderObjs[st.traders[i]])],
    units |-> st.units, civs |-> st.civs ]

\* The number of tiles before position p that were saved with an improvement.
ImprovedBefore(data, p) ==
  Cardinality({q \in Positions : q < p /\ data.tiles[q + 1].improvement # << >>})

\* map.tiles = data.tiles.map(tileData => Tile.import(tileData)): every tile
\* with its improvement, no owner yet.
ImportTiles(st, data) ==
  Bind(Ascending({p \in Positions : data.tiles[p + 1].improvement # << >>}), LAMBDA improved :
    [st EXCEPT
       !.imps = [i \in 1 .. Len(improved) |->
                   ImprovementImport(data.tiles[improved[i] + 1].improvement[1])],
       !.tiles = [p \in Positions |->
                    [ type |-> data.tiles[p + 1].type,
                      height |-> data.tiles[p + 1].height,
                      baseYield |-> data.tiles[p + 1].baseYield,
                      unit |-> data.tiles[p + 1].unit,
                      owner |-> NoCity,
                      improvement |-> IF data.tiles[p + 1].improvement = << >> THEN NoImp
                                      ELSE ImprovedBefore(data, p) + 1,
                      visibleTo |-> data.tiles[p + 1].visibleTo,
                      discoveredBy |-> data.tiles[p + 1].discoveredBy ]]])

\* for (const coords of set) map.setTileOwner(coords, city, false)
RECURSIVE OwnSaved(_, _, _, _)
OwnSaved(st, list, city, i) ==
  IF i > Len(list) THEN st
  ELSE Bind(setTileOwner(st, list[i], city, FALSE), LAMBDA s1 : OwnSaved(s1, list, city, i + 1))

\* map.cities = data.cities.map(...): import each city and give it its tiles.
RECURSIVE ImportCities(_, _, _)
ImportCities(st, data, i) ==
  IF i > Len(data.cities) THEN st
  ELSE
    Bind([st EXCEPT !.cities = Append(@, data.cities[i])], LAMBDA s1 :
      Bind(OwnSaved(s1, Ascending(data.cities[i].tiles), i, 1), LAMBDA s2 :
        ImportCities(s2, data, i + 1)))

\* Trader.import(map, traderData): the producer and the sink are the
\* improvements at the two ends of the route; the trader subscribes to both.
RECURSIVE ImportTraders(_, _, _)
ImportTraders(st, data, i) ==
  IF i > Len(data.traders) THEN st
  ELSE
    Bind([ civID |-> data.traders[i].civID, path |-> data.traders[i].path,
           length |-> data.traders[i].length,
           source |-> st.tiles[data.traders[i].path[1]].improvement,
           sink |-> st.tiles[data.traders[i].path[Len(data.traders[i].path)]].improvement,
           speed |-> data.traders[i].speed, capacity |-> data.traders[i].capacity,
           carried |-> data.traders[i].carried, expired |-> data.traders[i].expired,
           position |-> data.traders[i].position, returning |-> data.traders[i].returning ],
      LAMBDA trader :
        Bind(addTrader(st, trader), LAMBDA s1 : ImportTraders(s1, data, i + 1)))

\* Game.import(data) down to Map.import: tiles, then cities, then traders.
Import(st, data) ==
  Bind([st EXCEPT !.cities = << >>, !.traderObjs = << >>, !.traders = << >>,
                  !.updates = << >>, !.begun = [c \in CivIDs |-> 0],
                  !.units = data.units, !.civs = data.civs],
    LAMBDA s0 :
      Bind(ImportTiles(s0, data), LAMBDA s1 :
        Bind(ImportCities(s1, data, 1), LAMBDA s2 : ImportTraders(s2, data, 1))))

\* Game.load of what Game.save wrote: the running game is replaced by the
\* imported one.
Load ==
  /\ Ready
  /\ \E data \in {Export(Cur)} :
       \E r \in {Import(Cur, data)} : Commit(r, "import", FALSE)

\* Saving and loading in a game with a city, a construction site and turns.
MaxSaveSteps == 4
InitSave == NewGame /\ steps = MaxSaveSteps
NextSave ==
  \/ \E p \in EconSettle : SettleCityAt(p, 0)
  \/ \E p \in EconSites, type \in EconTypes : StartConstructionAt(p, type, 0)
  \/ Turn
  \/ Load
SpecSave == InitSave /\ [][NextSave]_vars

\* The export of the game imported from data.
Reexported(data) == Export(Import(Cur, data))

\* C10: importing a game's export gives a game whose export equals it.
C10_RoundTrip == \E data \in {Export(Cur)} : Reexported(data) = data

\* Traders the last startConstructionAt added: those that feed the worksite
\* it created, the newest improvement.
AddedTraders == {t \in 1 .. Len(traderObjs) : traderObjs[t].sink = Len(imps)}

\* C7: every trader createTradeRoutes added has a route that starts on the
\* producer's tile and ends on the sink's tile, and the two tiles differ.
C7_RouteEndpoints ==
  lastHandler = "startConstructionAt" =>
    \A t \in AddedTraders :
      /\ tiles[traderObjs[t].path[1]].improvement = traderObjs[t].source
      /\ tiles[traderObjs[t].path[Len(traderObjs[t].path)]].improvement = traderObjs[t].sink
      /\ traderObjs[t].path[1] # traderObjs[t].path[Len(traderObjs[t].path)]

\* C7 witness: a trader was added toward a sink tile that is owned by the civ
\* and could itself supply the requirement.
C7_TraderAddedSinkCanSupply ==
  /\ lastHandler = "startConstructionAt"
  /\ \E t \in AddedTraders :
       /\ OwnerCiv(Cur, traderObjs[t].path[Len(traderObjs[t].path)]) = traderObjs[t].civID
       /\ canSupply(Cur, traderObjs[t].path[Len(traderObjs[t].path)],
                    imps[traderObjs[t].sink].errand[1].cost)

\* C8: after every work() call the stored amount of every resource is at most
\* the store's capacity for it.
C8_StorageWithinCapacity ==
  \A e \in 1 .. Len(workLog) :
    \A k \in ResourceKeys : workLog[e].storageAfter[k] <= workLog[e].capacityAfter[k]

\* The work() calls of the last handler in which an errand became completed.
Completing ==
  {e \in 1 .. Len(workLog) :
     /\ workLog[e].errandAfter # << >> /\ workLog[e].errandAfter[1].completed
     /\ ~workLog[e].errandBefore[1].completed}

\* C8 witness: in one turn work() ran on an improvement whose errand completed
\* and on an improvement without an errand whose store is full in some resource.
C8_WorkedWithAndWithoutErrand ==
  /\ Completing # {}
  /\ \E e \in 1 .. Len(workLog) :
       /\ workLog[e].errandAfter = << >>
       /\ \E k \in ResourceKeys :
            workLog[e].capacityAfter[k] > 0 /\ workLog[e].storageAfter[k] = workLog[e].capacityAfter[k]

\* Improvement i holds a completed errand in the improvements is.
HoldsCompleted(is, i) ==
  i \in 1 .. Len(is) /\ is[i].errand # << >> /\ is[i].errand[1].completed

\* C9: an errand becomes completed only in a work() call that found
\* storage >= cost for every resource, which leaves every resource >= 0 once the
\* cost is subtracted; no other operation sets completed.
C9_CompletedOnlyWhenFulfilled ==
  [][\A i \in 1 .. Len(imps') :
       (HoldsCompleted(imps', i) /\ ~HoldsCompleted(imps, i)) =>
         /\ lastHandler' = "turn"
         /\ \E e \in 1 .. Len(workLog') :
              /\ workLog'[e].imp = i
              /\ workLog'[e].errandBefore # << >>
              /\ \A k \in ResourceKeys :
                   /\ workLog'[e].storageBefore[k] >= workLog'[e].errandBefore[1].cost[k]
                   /\ workLog'[e].storageBefore[k] - workLog'[e].errandBefore[1].cost[k] >= 0]_vars

\* C9 witness: a turn completed an errand and the tile now holds what it built.
C9_ErrandCompleted ==
  /\ lastHandler = "turn"
  /\ \E e \in Completing :
       \E p \in Positions :
         /\ tiles[p].improvement # NoImp
         /\ imps[tiles[p].improvement].type = workLog[e].errandAfter[1].option

\* ---------------------------------------------------------- player actions
\* A city next to a river and a mountain, and the action handlers called by
\* its civilization and by the other one.
MaxActSteps == 3
InitAct == NewGame /\ steps = MaxActSteps

\* Map.trainUnitAt(coords, unitType, ownerID)
TrainUnitAt(p, unitType, ownerID) ==
  /\ Ready
  /\ \E tree \in {getPathTree(tiles, p, 5, LAND)} :
       \E keys \in {IF TrainAccepted(Cur, p, unitType, ownerID)
                      THEN Candidates(Cur, ownerID, p,
                                    errandCostTable("unit_training", unitType), tree)
                      ELSE {}} :
         \E order \in SortedOrders(keys, tree.dst) :
           \E r \in {trainUnitAt(Cur, p, unitType, ownerID, order)} :
             CommitCall(r, "trainUnitAt", FALSE,
                        [p |-> p, option |-> unitType, ownerID |-> ownerID, ret |-> TRUE])

\* Map.researchKnowledgeAt(coords, knowledgeName, ownerID)
ResearchKnowledgeAt(p, knowledgeName, ownerID) ==
  /\ Ready
  /\ \E tree \in {getPathTree(tiles, p, 5, LAND)} :
       \E keys \in {IF ResearchAccepted(Cur, p, knowledgeName, ownerID)
                      THEN Candidates(Cur, ownerID, p,
                                    errandCostTable("research", knowledgeName), tree)
                      ELSE {}} :
         \E order \in SortedOrders(keys, tree.dst) :
           \E r \in {researchKnowledgeAt(Cur, p, knowledgeName, ownerID, order)} :
             CommitCall(r, "researchKnowledgeAt", FALSE,
                        [p |-> p, option |-> knowledgeName, ownerID |-> ownerID, ret |-> TRUE])

ActSettle == {35, 40}
ActSites == {34, 41}
ActTrainSites == {35}
ActUnitTypes == {"settler", "scout"}
ActResearchSites == {34}
ActKnowledge == {"science_1"}
ActTypes == {"farm", "encampment"}
NextAct ==
  \/ \E p \in ActSettle : SettleCityAt(p, 0)
  \/ \E p \in ActSites, ownerID \in CivIDs : BuildImprovementAt(p, "campus", ownerID)
  \/ \E p \in ActSites, type \in ActTypes, ownerID \in CivIDs :
       StartConstructionAt(p, type, ownerID)
  \/ \E p \in ActTrainSites, unitType \in ActUnitTypes, ownerID \in CivIDs :
       TrainUnitAt(p, unitType, ownerID)
  \/ \E p \in ActResearchSites, knowledgeName \in ActKnowledge, ownerID \in CivIDs :
       ResearchKnowledgeAt(p, knowledgeName, ownerID)
SpecAct == InitAct /\ [][NextAct]_vars

\* ------------------------------------------------------ turns and messages
\* Players connect, units move, updates are sent and turns end.
MaxTurnSteps == 4
InitTurn == NewGame /\ steps = MaxTurnSteps

\* Game.connectPlayer(username, player) for a civilization without player.
ConnectPlayer(username, civID, isAI) ==
  /\ Ready /\ PlayerOf(players, civID) = 0
  /\ CommitAll(Cur, "connectPlayer", FALSE, NoCall,
               connectPlayer(players, username, civID, isAI))

\* Game.endTurn()
EndTurn ==
  /\ Ready
  /\ \E r \in {endTurn(Cur, players)} : Commit(r, "endTurn", FALSE)

TurnDests == {19, 27}
NextTurn ==
  \/ \E civID \in CivIDs, isAI \in BOOLEAN : ConnectPlayer(Usernames[civID + 1], civID, isAI)
  \/ \E u \in UnitIDs, c \in TurnDests : MoveUnitTo(u, c)
  \/ SendUpdates
  \/ EndTurn
SpecTurn == InitTurn /\ [][NextTurn]_vars

\* -------------------------------------------------- claims on the actions
ActionHandlers == {"startConstructionAt", "trainUnitAt", "researchKnowledgeAt"}

\* The tile at p holds an improvement with an errand that is not completed.
LiveErrand(ts, is, p) ==
  /\ ts[p].improvement # NoImp
  /\ is[ts[p].improvement].errand # << >>
  /\ ~is[ts[p].improvement].errand[1].completed

\* The errand of the tile at p after a step is the one it had before it.
SameErrand(p) ==
  /\ tiles'[p].improvement # NoImp
  /\ imps'[tiles'[p].improvement].errand # << >>
  /\ imps'[tiles'[p].improvement].errand[1].type = imps[tiles[p].improvement].errand[1].type
  /\ imps'[tiles'[p].improvement].errand[1].option = imps[tiles[p].improvement].errand[1].option
  /\ imps'[tiles'[p].improvement].errand[1].cost = imps[tiles[p].improvement].errand[1].cost

\* C11: a call of startConstructionAt, trainUnitAt or researchKnowledgeAt
\* leaves every errand that was live and incomplete before the call attached
\* to its tile's improvement, with the same type, option and cost.
C11_LiveErrandKept ==
  [][lastHandler' \in ActionHandlers =>
       \A p \in Positions : LiveErrand(tiles, imps, p) => SameErrand(p)]_vars

OwnedActions == {"buildImprovementAt", "startConstructionAt", "trainUnitAt", "researchKnowledgeAt"}

\* C12: buildImprovementAt, startConstructionAt, trainUnitAt and
\* researchKnowledgeAt called with an ownerID that is not the civilization of
\* the tile's owning city (or on a tile without owner) leave the tiles, the
\* improvements with their errands, the cities and the traders unchanged.
C12_WrongOwnerChangesNothing ==
  [][(lastHandler' \in OwnedActions /\ OwnerCiv(Cur, lastCall'.p) # lastCall'.ownerID) =>
       /\ tiles' = tiles /\ imps' = imps /\ cities' = cities
       /\ traders' = traders /\ traderObjs' = traderObjs]_vars

\* A handler was called for a tile of the other civilization's city.
C12_CalledOnForeignTile ==
  /\ lastHandler \in OwnedActions
  /\ OwnerCiv(Cur, lastCall.p) \notin {-1, lastCall.ownerID}

\* C13: buildImprovementAt and startConstructionAt on a tile that fails
\* canBuildOn (ocean, frozen_ocean, mountain) replace no improvement, start no
\* errand and create no trader, whoever owns the tile.
C13_UnbuildableChangesNothing ==
  [][(lastHandler' \in {"buildImprovementAt", "startConstructionAt"}
        /\ ~canBuildOn(tiles[lastCall'.p])) =>
       /\ tiles' = tiles /\ imps' = imps
       /\ traders' = traders /\ traderObjs' = traderObjs]_vars

\* The owner, the improvement and the visibility counters of every tile.
OwnersAndCounters(ts) ==
  [p \in Positions |->
     [owner |-> ts[p].owner, improvement |-> ts[p].improvement, visibleTo |-> ts[p].visibleTo]]

\* C14: settleCityAt on a tile that has an owner, or of type ocean,
\* frozen_ocean, mountain, coastal, frozen_coastal or river, returns false and
\* leaves the cities, every tile's owner, improvement and visibility counters,
\* and the update queue unchanged.
C14_RefusedSettleChangesNothing ==
  [][(lastHandler' = "settleCityAt" /\ ~canSettleOn(tiles[lastCall'.p])) =>
       /\ lastCall'.ret = FALSE
       /\ cities' = cities /\ imps' = imps /\ updates' = updates
       /\ OwnersAndCounters(tiles') = OwnersAndCounters(tiles)]_vars

\* settleCityAt was refused on a tile of a city, or on a river tile no city owns.
C14_RefusedOnOwnedTile ==
  /\ lastHandler = "settleCityAt" /\ ~lastCall.ret
  /\ tiles[lastCall.p].owner # NoCity

C14_RefusedOnRiver ==
  /\ lastHandler = "settleCityAt" /\ ~lastCall.ret
  /\ tiles[lastCall.p].owner = NoCity /\ tiles[lastCall.p].type = "river"

\* The step is a call of trainUnitAt or researchKnowledgeAt that one of the
\* handler's checks refuses.
RejectedStep ==
  \/ /\ lastHandler' = "trainUnitAt"
     /\ ~TrainAccepted(Cur, lastCall'.p, lastCall'.option, lastCall'.ownerID)
  \/ /\ lastHandler' = "researchKnowledgeAt"
     /\ ~ResearchAccepted(Cur, lastCall'.p, lastCall'.option, lastCall'.ownerID)

\* C15: a rejected train or research action (tile not owned by the actor, no
\* improvement, unit type or knowledge not offered, or an errand already
\* live) pushes no entry onto the update queue.
C15_RejectedPushesNothing == [][RejectedStep => updates' = updates]_vars

\* The types canSettleOn refuses.
NonSettleable == {"ocean", "frozen_ocean", "mountain", "coastal", "frozen_coastal", "river"}

\* C16: every tile that has an owning city is of a settleable type (a tile's
\* type never changes, so it was settleable when its owner was set);
\* settleCityAt gives the new city no neighbouring tile of another type.
C16_OwnedTilesSettleable ==
  \A p \in Positions : tiles[p].owner # NoCity => tiles[p].type \notin NonSettleable

\* ------------------------------------------- claims on turns and messages
\* C17: when a beginTurn event is sent to a civilization with a connected
\* player, the update queue holds no tileUpdate pushed since the civ's
\* previous beginTurn: all of them were handed out by getUpdates before.
C17_BeginTurnAfterUpdates ==
  [][\A i \in 1 .. Len(sent') :
       HasEvent(sent'[i].update, "beginTurn") =>
         sent'[i].queued <= begun[sent'[i].to]]_vars

\* C18: when Game.endTurn invokes world.turn(), the update queue is empty.
C18_QueueEmptyAtWorldTurn ==
  lastHandler = "endTurn" =>
    \A i \in 1 .. Len(sent) : sent[i].to = -1 => sent[i].queued = 0

\* The civilizations whose player has a connection.
HumanCivs(ps) == {ps[i].civID : i \in {j \in 1 .. Len(ps) : ~ps[j].isAI}}

\* The places in the log of the messages sent to a civilization.
SentTo(log, civID) == {i \in 1 .. Len(log) : log[i].to = civID}

C19_EndTurnWithTwoHumans ==
  /\ lastHandler = "endTurn" /\ Cardinality(HumanCivs(players)) = 2

\* The queue q is the beginning of the queue r.
IsPrefix(q, r) == Len(q) <= Len(r) /\ SubSeq(r, 1, Len(q)) = q

\* C20: getUpdates returns the whole queue in the order of the tileUpdate
\* calls and leaves it empty, and no other handler takes an update out of the
\* queue or reorders it: every pushed update is returned by exactly one
\* getUpdates call.
C20_SingleDrain ==
  [][IF lastHandler' = "sendUpdates"
       THEN /\ updates' = << >>
            /\ getUpdates(updates).returned = updates
            /\ \A i \in 1 .. Len(sent') : sent'[i].update = TileUpdateEvents(updates)
       ELSE IsPrefix(updates, updates')]_vars

\* Several updates, pushed by different handlers, were sent to a connected player.
C20_DrainedToPlayer ==
  /\ lastHandler = "sendUpdates"
  /\ sent # << >>
  /\ Len(sent[1].update) > Len(Constructed.updates)

\* ------------------------------------------------------------- research
\* A city, a campus or a construction site supplied by the city's traders, a
\* research and turns.
MaxKnowSteps == 7
InitKnow == NewGame /\ steps = MaxKnowSteps

KnowSettle == {27}
KnowSites == {28}
KnowResearch == {"science_1"}
NextKnow ==
  \/ \E p \in KnowSettle : SettleCityAt(p, 0)
  \/ \E p \in KnowSites : BuildImprovementAt(p, "campus", 0)
  \/ \E p \in KnowSites : StartConstructionAt(p, "encampment", 0)
  \/ \E p \in KnowSites, knowledgeName \in KnowResearch :
       ResearchKnowledgeAt(p, knowledgeName, 0)
  \/ Turn
SpecKnow == InitKnow /\ [][NextKnow]_vars

\* --------------------------------------------------------------- traders
\* A city and two construction sites started at different times, so that one
\* site's traders expire while the other's still run.
MaxTradeSteps == 7
InitTrade == NewGame /\ steps = MaxTradeSteps

NextTrade ==
  \/ SettleCityAt(27, 0)
  \/ StartConstructionAt(28, "encampment", 0)
  \/ StartConstructionAt(33, "farm", 0)
  \/ Turn
SpecTrade == InitTrade /\ [][NextTrade]_vars

\* ------------------------------------------------------ visibility rebuild
\* Units that join, move away and leave between the turn starts of both civs.
MaxSightSteps == 3
SightDests == {19, 45}
InitSight == NewGame /\ steps = MaxSightSteps
NextSight ==
  \/ \E u \in UnitIDs, c \in SightDests : MoveUnitTo(u, c)
  \/ \E u \in UnitIDs, c \in AddDests : AddUnit(u, c)
  \/ \E u \in UnitIDs : RemoveUnit(u)
  \/ \E civID \in CivIDs : BeginTurnForCiv(civID)
SpecSight == InitSight /\ [][NextSight]_vars

\* ------------------------------------------------------------ ownership
\* Two civs settling next to each other and tiles handed from city to city.
MaxOwnSteps == 3
OwnSettle == {27, 39}
OwnTiles == {33, 38}
InitOwn == NewGame /\ steps = MaxOwnSteps
NextOwn ==
  \/ \E p \in OwnSettle, civID \in CivIDs : SettleCityAt(p, civID)
  \/ \E p \in OwnTiles, owner \in 1 .. MaxCities, overwrite \in BOOLEAN :
       SetTileOwner(p, owner, overwrite)
SpecOwn == InitOwn /\ [][NextOwn]_vars

\* ------------------------------------------------------------ who plays
\* Players join, and join again, under a few usernames.
MaxJoinSteps == 4
InitJoin == NewGame /\ steps = MaxJoinSteps

\* connectPlayer(username, new Player(newPlayerCivID(username)))
ConnectNewPlayer(username) ==
  /\ Ready
  /\ \E civID \in {newPlayerCivID(players, username)} :
       CommitAll(Cur, "connectPlayer", FALSE,
                 [p |-> NullPos, option |-> username, ownerID |-> civID, ret |-> TRUE],
                 connectPlayer(players, username, civID, FALSE))

NextJoin == \E i \in 1 .. Len(Usernames) : ConnectNewPlayer(Usernames[i])
SpecJoin == InitJoin /\ [][NextJoin]_vars

\* ------------------------------------------------------- turn after turn
\* A city is settled and trains units; Map.turn is called again and again,
\* as the game does while it runs.
MaxLiveSteps == 2
LiveUnitTypes == {"scout", "settler"}
InitLive == NewGame /\ steps = MaxLiveSteps

\* Map.turn(world), one more of the turns that never run out.
TurnAgain ==
  /\ ~crashed
  /\ \E r \in {turn(Cur)} : CommitState(r, "turn", FALSE, NoCall, players)
  /\ UNCHANGED steps

NextLive ==
  \/ SettleCityAt(27, 0)
  \/ \E unitType \in LiveUnitTypes, ownerID \in CivIDs : TrainUnitAt(27, unitType, ownerID)
  \/ TurnAgain
SpecLive == InitLive /\ [][NextLive]_vars /\ WF_vars(TurnAgain)

\* ----------------------------------------------------------- map queries
\* The queries of Map called on the constructed map with every centre, the
\* radii and ranges up to the bounds, and three filters.
MaxQuerySteps == 1
MaxRadius == 3
MaxRange == 4
\* The filter (tile, coords) => coords.y !== 3, as the set it accepts.
NotRowThree == {p \in Positions : coords(p).y # 3}
\* The filter (tile) => tile.type !== 'mountain', as the set it accepts.
NotMountain == {p \in Positions : Constructed.tiles[p].type # "mountain"}
Filters == {Positions, NotRowThree, NotMountain}

\* The calls made: getNeighborsCoords(c, r, {filter}) and getPathTree(c, r, mode).
Queries ==
  {[fn |-> "getNeighborsCoords", c |-> p, r |-> r, accept |-> accept, mode |-> LAND,
    flat |-> FALSE, answered |-> FALSE, ret |-> << >>] :
      p \in Positions, r \in 0 .. MaxRadius, accept \in Filters}
  \cup
  {[fn |-> "getPathTree", c |-> p, r |-> range, accept |-> Positions, mode |-> mode,
    flat |-> FALSE, answered |-> FALSE, ret |-> << >>] :
      p \in Positions, range \in 0 .. MaxRange, mode \in {LAND, WATER, AIR}}
  \cup
  {[fn |-> "getVisibleTilesCoords", c |-> p, r |-> range, accept |-> Positions, mode |-> LAND,
    flat |-> flat, answered |-> FALSE, ret |-> << >>] :
      p \in Positions, range \in 0 .. MaxRadius, flat \in BOOLEAN}

InitQuery == NewWorld /\ steps = MaxQuerySteps /\ query \in Queries

\* A query returns its answer and changes nothing.
Answer(fn, ret) ==
  /\ Ready
  /\ query.fn = fn /\ ~query.answered
  /\ query' = [query EXCEPT !.answered = TRUE, !.ret = ret]
  /\ lastHandler' = fn
  /\ steps' = steps - 1
  /\ UNCHANGED << tiles, units, civs, cities, imps, traderObjs, traders, updates,
                  crashed, workLog, everVisible, players, sent, begun,
                  knowledge, spilled, completions, lastCall >>

GetNeighborsCoords ==
  Answer("getNeighborsCoords", getNeighborsCoords(coords(query.c), query.r, query.accept))

GetPathTree ==
  Answer("getPathTree", getPathTree(tiles, query.c, query.r, query.mode))

\* The map with every tile at height 0 and no improvement.
FlatTiles == [p \in Positions |-> [tiles[p] EXCEPT !.height = 0, !.improvement = NoImp]]

\* getVisibleTilesCoords(unit, range) for a unit standing on query.c.
GetVisibleTilesCoords ==
  Answer("getVisibleTilesCoords",
         getVisibleTilesCoords(IF query.flat THEN FlatTiles ELSE tiles, imps, query.c, query.r))

NextQuery ==
  \/ GetNeighborsCoords
  \/ GetPathTree
  \/ GetVisibleTilesCoords
SpecQuery == InitQuery /\ [][NextQuery]_vars

\* ------------------------------------------------ claims on Map.turn
\* What a tile publishes: its owner, its unit slot, its visibility counters,
\* and the type, the store and the errand of its improvement.
Published(ts, is, p) ==
  [ owner |-> ts[p].owner, unit |-> ts[p].unit, visibleTo |-> ts[p].visibleTo,
    improvement |-> IF ts[p].improvement = NoImp THEN << >>
                    ELSE << [ type |-> is[ts[p].improvement].type,
                              storage |-> is[ts[p].improvement].storage,
                              errand |-> is[ts[p].improvement].errand ] >> ]

\* The coords the step pushed onto the update queue.
NewlyPushed ==
  IF IsPrefix(updates, updates')
    THEN {updates'[i] : i \in Len(updates) + 1 .. Len(updates')}
    ELSE {updates'[i] : i \in 1 .. Len(updates')}

\* C21: a handler that changes what a tile publishes (improvement type,
\* store or errand, owner, unit slot, visibility counters) pushes a
\* tileUpdate for the tile's coords, Map.turn and setTileOwner included.
C21_ChangesArePushed ==
  [][\A p \in Positions :
       Published(tiles', imps', p) # Published(tiles, imps, p) => p \in NewlyPushed]_vars

\* The work() calls of the step that left an errand completed.
CompletedInStep ==
  {e \in 1 .. Len(workLog') :
     workLog'[e].errandAfter # << >> /\ workLog'[e].errandAfter[1].completed}

\* C22: when Map.turn returns, no improvement of a tile has a completed
\* errand: for each errand work() completed in the turn, complete was called
\* once, its effect is there, and the improvement the tile holds has no errand.
C22_CompletedErrandsRemoved ==
  [][lastHandler' = "turn" =>
       /\ \A p \in Positions :
            tiles'[p].improvement # NoImp => ~HoldsCompleted(imps', tiles'[p].improvement)
       /\ Len(completions') = Cardinality(CompletedInStep)
       /\ \A e \in CompletedInStep :
            Cardinality({d \in 1 .. Len(completions') :
                           completions'[d].imp = workLog'[e].imp}) = 1
       /\ \A d \in 1 .. Len(completions') :
            /\ imps'[tiles'[completions'[d].p].improvement].errand = << >>
            /\ completions'[d].type = "construction" =>
                 /\ tiles'[completions'[d].p].improvement > Len(imps)
                 /\ imps'[tiles'[completions'[d].p].improvement].type = completions'[d].option
            /\ completions'[d].type = "research" =>
                 knowledge'[completions'[d].p][completions'[d].option] >= RESEARCH_POINTS]_vars

\* A turn completed the research of a campus.
C22_ResearchCompleted ==
  /\ lastHandler = "turn"
  /\ \E d \in 1 .. Len(completions) :
       /\ completions[d].type = "research"
       /\ imps[tiles[completions[d].p].improvement].type = "campus"

\* A turn completed a construction.
C22_ConstructionCompleted ==
  /\ lastHandler = "turn"
  /\ \E d \in 1 .. Len(completions) : completions[d].type = "construction"

\* The suppliers of the improvements whose errand the step completed.
ReleasedSuppliers ==
  {t \in 1 .. Len(traderObjs) :
     \E d \in 1 .. Len(completions') : InList(imps[completions'[d].imp].suppliers, t)}

\* C23: when Map.turn returns, Map.traders holds no expired trader, every
\* trader that was in the list when the trader loop began has been shunted
\* exactly once, and no supplier of an improvement whose errand completed in
\* this turn is left in the list.
C23_ExpiredTradersReaped ==
  [][lastHandler' = "turn" =>
       /\ \A i \in 1 .. Len(traders') : ~traderObjs'[traders'[i]].expired
       /\ \A t \in ReleasedSuppliers : ~InList(traders', t)
       /\ \E s1 \in {TurnTiles(Cur, [i \in 1 .. NumTiles |-> i - 1], 1)} :
            \A i \in 1 .. Len(traders) :
              traderObjs'[traders[i]] = shunt(s1, traders[i]).traderObjs[traders[i]]]_vars

\* A turn reaped the supplier of a completed errand and shunted the trader
\* that stood behind it in the list.
C23_ReapedBeforeRunning ==
  /\ lastHandler = "turn"
  /\ completions # << >>
  /\ \E t \in 1 .. Len(traderObjs) :
       /\ traderObjs[t].expired /\ ~InList(traders, t)
       /\ \E i \in 1 .. Len(traders) : traders[i] > t

\* ------------------------------------------------ claims on map queries
Abs(n) == IF n < 0 THEN -n ELSE n

\* The steps between two hexes of the odd-x offset layout on an unbounded
\* plane, through their axial coordinates.
AxialDistance(a, b) ==
  LET dq == b.x - a.x
      dr == (b.y - ((b.x - (b.x % 2)) \div 2)) - (a.y - ((a.x - (a.x % 2)) \div 2))
  IN Max(Max(Abs(dq), Abs(dr)), Abs(dq + dr))

\* The steps between two tiles of the map, x wrapping at the width.
HexDistance(p, q) ==
  LET a == coords(p)
      b == coords(q)
  IN Min(AxialDistance(a, b),
         Min(AxialDistance(a, [b EXCEPT !.x = @ + Width]),
             AxialDistance(a, [b EXCEPT !.x = @ - Width])))

NoDuplicates(list) == \A i, j \in 1 .. Len(list) : list[i] = list[j] => i = j

\* C24: without a filter getNeighborsCoords(c, r) returns exactly the existing
\* tiles within r hex steps of c, c included, with x wrapping at the width,
\* no row outside the map and no tile twice.
C24_NeighborsAreTheDisc ==
  (query.fn = "getNeighborsCoords" /\ query.answered /\ query.accept = Positions) =>
    /\ ListSet(query.ret) = {q \in Positions : HexDistance(query.c, q) <= query.r}
    /\ NoDuplicates(query.ret)

\* A radius-3 query at the western edge answered with tiles of the eastern edge.
C24_WrappedDisc ==
  /\ query.fn = "getNeighborsCoords" /\ query.answered /\ query.accept = Positions
  /\ query.r = 3 /\ coords(query.c).x = 0
  /\ \E i \in 1 .. Len(query.ret) : coords(query.ret[i]).x = Width - 1

\* The tiles reached from c in at most r steps when every step enters a tile
\* of accept.
RECURSIVE AcceptedReach(_, _, _)
AcceptedReach(c, r, accept) ==
  IF r = 0 THEN {c}
  ELSE Bind(AcceptedReach(c, r - 1, accept), LAMBDA near :
         near \cup {q \in accept : \E p \in near : HexDistance(p, q) = 1})

\* C25: with a filter getNeighborsCoords does not recurse through a rejected
\* tile: every tile it returns is accepted and is reached from c by steps
\* that enter accepted tiles only.
C25_RejectedTilesStopTheSearch ==
  (query.fn = "getNeighborsCoords" /\ query.answered) =>
    ListSet(query.ret) \subseteq (AcceptedReach(query.c, query.r, query.accept) \cap query.accept)

\* The positions that have a key in the dst map of an answered getPathTree.
DstKeys == {p \in Positions : query.ret.dst[p] # NoDist}

\* C26: the dst map of getPathTree(src, range, mode) has an entry only for
\* tiles whose distance is at most range.
C26_DstWithinRange ==
  (query.fn = "getPathTree" /\ query.answered) =>
    \A p \in DstKeys : query.ret.dst[p] <= query.r

\* ------------------------------------------- claims on createTradeRoutes
\* The step started an errand and created its trade routes.
RoutesCreated ==
  \/ lastHandler' = "startConstructionAt" /\ OwnerCiv(Cur, lastCall'.p) = lastCall'.ownerID
  \/ lastHandler' = "trainUnitAt"
       /\ TrainAccepted(Cur, lastCall'.p, lastCall'.option, lastCall'.ownerID)
  \/ lastHandler' = "researchKnowledgeAt"
       /\ ResearchAccepted(Cur, lastCall'.p, lastCall'.option, lastCall'.ownerID)

\* The sink and the requirement of the createTradeRoutes call of the last handler.
LastSink == tiles[lastCall.p].improvement
LastRequirement == imps[LastSink].errand[1].cost

\* The traders the step created from tile p.
CreatedFrom(p) ==
  {t \in (Len(traderObjs) + 1) .. Len(traderObjs') :
     traderObjs'[t].sink = LastSink' /\ traderObjs'[t].source = tiles'[p].improvement}

\* C27: in createTradeRoutes a candidate for which findRoute returns null adds
\* no trader, and every other candidate still gets its trader.
C27_NullRouteSkipsOneCandidate ==
  [][RoutesCreated =>
       \E tree \in {getPathTree(tiles', lastCall'.p, 5, LAND)} :
         \A p \in Candidates(Cur', lastCall'.ownerID, lastCall'.p, LastRequirement', tree) :
           Cardinality(CreatedFrom(p)) =
             IF findRoute(tree.paths, tree.dst, p, lastCall'.p).found THEN 1 ELSE 0]_vars

\* A startConstructionAt whose worksite, a candidate without a route, came
\* before a candidate that now runs a trader to it.
C27_RouteAfterNullRoute ==
  /\ lastHandler = "startConstructionAt" /\ OwnerCiv(Cur, lastCall.p) = lastCall.ownerID
  /\ \E tree \in {getPathTree(tiles, lastCall.p, 5, LAND)} :
       \E p, q \in Candidates(Cur, lastCall.ownerID, lastCall.p, LastRequirement, tree) :
         /\ ~findRoute(tree.paths, tree.dst, p, lastCall.p).found
         /\ tree.dst[p] < tree.dst[q]
         /\ \E t \in ListSet(traders) :
              traderObjs[t].sink = LastSink /\ traderObjs[t].source = tiles[q].improvement

\* The traders the step created, in the order they were made.
Created == (Len(traderObjs) + 1) .. Len(traderObjs')

\* The tiles that hold the producer of trader t after the step.
ProducerTiles(t) == {p \in Positions : tiles'[p].improvement = traderObjs'[t].source}

\* C28: every trader createTradeRoutes creates has a producer tile owned by
\* the civ, able to supply the requirement and at a route distance within the
\* range; its capacity is the per-key minimum of TRADER_CAPACITY and the
\* requirement; the traders are appended in non-decreasing route distance.
C28_TradersWellFormed ==
  [][RoutesCreated =>
       \E tree \in {getPathTree(tiles', lastCall'.p, 5, LAND)} :
         /\ \A t \in Created :
              /\ ProducerTiles(t) # {}
              /\ \A p \in ProducerTiles(t) :
                   /\ OwnerCiv(Cur', p) = lastCall'.ownerID
                   /\ canSupply(Cur', p, LastRequirement')
                   /\ tree.dst[p] # NoDist /\ tree.dst[p] <= 5
                   /\ traderObjs'[t].length = tree.dst[p]
              /\ \A k \in ResourceKeys :
                   traderObjs'[t].capacity[k] = Min(TRADER_CAPACITY[k], LastRequirement'[k])
         /\ \A t, u \in Created : t < u => traderObjs'[t].length <= traderObjs'[u].length
         /\ traders' = traders \o [i \in 1 .. (Len(traderObjs') - Len(traderObjs)) |->
                                     Len(traderObjs) + i]]_vars

\* One call created two traders whose route distances differ.
C28_TwoDistances ==
  /\ lastHandler \in {"startConstructionAt", "trainUnitAt", "researchKnowledgeAt"}
  /\ \E i, j \in 1 .. Len(traders) :
       /\ i < j
       /\ traderObjs[traders[i]].sink = LastSink /\ traderObjs[traders[j]].sink = LastSink
       /\ traderObjs[traders[i]].carried = Yield(0, 0) /\ traderObjs[traders[j]].carried = Yield(0, 0)
       /\ traderObjs[traders[i]].length < traderObjs[traders[j]].length

\* ------------------------------------------------ claims on spillover
\* C29: in Map.turn the spillover of a tile is applied to its six adjacent
\* tiles and not to the emitting tile itself.
C29_SpilloverSparesTheSource ==
  lastHandler = "turn" =>
    \A e \in 1 .. Len(spilled) :
      spilled[e].to # spilled[e].from /\ HexDistance(spilled[e].from, spilled[e].to) = 1

\* ------------------------------------- claims on updateCivTileVisibility
\* The units of civ c that stand within 3 hex steps of the tile at p.
UnitsNear(us, cs, c, p) ==
  {u \in ListSet(cs[c]) : HexDistance(us[u].coords, p) <= 3}

\* C30: after updateCivTileVisibility(civ) the civ's counter on every tile is
\* the number of the civ's units within 3 hex steps of the tile, whatever the
\* counters were before, and the counters and discoveredBy of every other civ
\* are unchanged.
C30_CountersRebuilt ==
  [][lastHandler' = "updateCivTileVisibility" =>
       \A p \in Positions :
         /\ tiles'[p].visibleTo[lastCall'.ownerID] =
              Cardinality(UnitsNear(units', civs', lastCall'.ownerID, p))
         /\ \A d \in CivIDs \ {lastCall'.ownerID} :
              /\ tiles'[p].visibleTo[d] = tiles[p].visibleTo[d]
              /\ tiles'[p].discoveredBy[d] = tiles[p].discoveredBy[d]]_vars

\* A rebuild that left one tile lit by two units and another, lit earlier, dark.
C30_RebuiltWithTwoUnits ==
  /\ lastHandler = "updateCivTileVisibility"
  /\ \E p, q \in Positions :
       /\ tiles[p].visibleTo[lastCall.ownerID] = 2
       /\ tiles[q].visibleTo[lastCall.ownerID] = 0 /\ << q, lastCall.ownerID >> \in everVisible

\* ------------------------------------------------ claims on completion
\* The tiles on which the step completed a construction of the given type.
BuiltInStep(type) ==
  {completions'[d].p : d \in {e \in 1 .. Len(completions') :
     completions'[e].type = "construction" /\ completions'[e].option = type}}

\* C31: once the worksite of a farm construction holds the errand's cost and
\* Map.turn has run, the tile's improvement is a farm whose yield is the
\* tile's base yield plus the farm yield, whose store has the farm's capacity
\* and which has no errand.
C31_FarmReplacesWorksite ==
  [][lastHandler' = "turn" =>
       \A p \in BuiltInStep("farm") :
         /\ tiles'[p].improvement # NoImp
         /\ imps'[tiles'[p].improvement].type = "farm"
         /\ imps'[tiles'[p].improvement].yield = YieldAdd(tiles'[p].baseYield, Yield(1, 0))
         /\ imps'[tiles'[p].improvement].capacity = Yield(20, 0)
         /\ imps'[tiles'[p].improvement].errand = << >>
         /\ imps[tiles[p].improvement].type = "worksite"
         /\ fulfills(imps[tiles[p].improvement].storage, Yield(1, 2))]_vars

\* A turn completed the construction of a farm.
C31_FarmBuilt ==
  /\ lastHandler = "turn"
  /\ \E d \in 1 .. Len(completions) :
       /\ completions[d].type = "construction" /\ completions[d].option = "farm"
       /\ imps[tiles[completions[d].p].improvement].type = "farm"

\* ------------------------------------------------ claims on path finding
\* discs[k + 1] is the set of tiles some path from src reaches at a total cost
\* of at most k, the cost of a path being the sum of the movement costs of the
\* tiles it enters; CostDiscs builds the discs of cost 0 .. k.
RECURSIVE CostDiscs(_, _, _, _)
CostDiscs(ts, src, k, mode) ==
  IF k = 0 THEN << {src} >>
  ELSE Bind(CostDiscs(ts, src, k - 1, mode), LAMBDA discs :
         Append(discs,
           discs[k] \cup
             {q \in Positions :
                \E c \in 1 .. k :
                  /\ movementCost(ts[q], mode) = c
                  /\ \E p \in discs[k - c + 1] : HexDistance(p, q) = 1}))

\* The positions that have a key in the parent map of an answered getPathTree.
ParentKeys == {p \in Positions : query.ret.paths[p] # NoParent}

\* C32: every tile with an entry in the parent map of getPathTree has as dist
\* the minimum total movement cost over all paths from src to it.
C32_DistIsMinimumCost ==
  (query.fn = "getPathTree" /\ query.answered) =>
    \E discs \in {CostDiscs(tiles, query.c, query.r, query.mode)} :
      \A p \in ParentKeys :
        /\ query.ret.dst[p] \in 1 .. query.r
        /\ p \in discs[query.ret.dst[p] + 1]
        /\ p \notin discs[query.ret.dst[p]]

\* A land search that gave a plains tile a dist above its hex distance: the
\* straight way leads over the river.
C32_CheaperWayAround ==
  /\ query.fn = "getPathTree" /\ query.answered /\ query.mode = LAND
  /\ \E p \in ParentKeys :
       /\ tiles[p].type = "plains"
       /\ query.ret.dst[p] > HexDistance(query.c, p)

\* The cost of entering the tiles path[i..] one after the other.
RECURSIVE PathCost(_, _, _, _)
PathCost(ts, path, i, mode) ==
  IF i > Len(path) THEN 0
  ELSE movementCost(ts[path[i]], mode) + PathCost(ts, path, i + 1, mode)

\* The way back from p: p itself, then what findPath returned for it.
WayBack(p) == << p >> \o findPath(query.ret.paths, p, query.c).path

\* C33: for every key p of the parent map of getPathTree(src, ...),
\* findPath(parent, p, src) returns a list that ends at src, steps between
\* adjacent tiles from p on and enters tiles of total cost dist[p] on the way
\* from src; src itself has no parent entry.
C33_ParentsLeadToSource ==
  (query.fn = "getPathTree" /\ query.answered) =>
    /\ query.ret.paths[query.c] = NoParent
    /\ \A p \in ParentKeys :
         \E way \in {WayBack(p)} :
           /\ findPath(query.ret.paths, p, query.c).found
           /\ way[Len(way)] = query.c
           /\ \A i \in 1 .. Len(way) - 1 : HexDistance(way[i], way[i + 1]) = 1
           /\ PathCost(tiles, SubSeq(way, 1, Len(way) - 1), 1, query.mode) = query.ret.dst[p]

\* A search whose parent map holds a tile four steps from the source on a way
\* that goes around the river.
C33_LongWayBack ==
  /\ query.fn = "getPathTree" /\ query.answered /\ query.mode = LAND
  /\ \E p \in ParentKeys :
       /\ Len(WayBack(p)) = 4
       /\ HexDistance(query.c, p) = 2
       /\ \A i \in 1 .. 4 : tiles[WayBack(p)[i]].type = "plains"

\* ------------------------------------------------ claims on line of sight
\* C34: on a map of one elevation getVisibleTilesCoords(unit, r) returns
\* exactly the tiles within r hex steps of the unit's tile, that tile
\* included, each of them once.
C34_FlatSightIsTheDisc ==
  (query.fn = "getVisibleTilesCoords" /\ query.answered /\ query.flat) =>
    /\ query.ret.ok
    /\ ListSet(query.ret.list) = {q \in Positions : HexDistance(query.c, q) <= query.r}
    /\ NoDuplicates(query.ret.list)

\* The part of C34 about the calls that return.
FlatSightWhenReturned ==
  (query.fn = "getVisibleTilesCoords" /\ query.answered /\ query.flat /\ query.ret.ok) =>
    /\ ListSet(query.ret.list) = {q \in Positions : HexDistance(query.c, q) <= query.r}
    /\ NoDuplicates(query.ret.list)

\* C35: getVisibleTilesCoords completes without error and returns only
\* existing tiles for a unit on any tile of the map, also when its range
\* reaches past the first or the last row.
C35_SightStopsAtTheEdge ==
  (query.fn = "getVisibleTilesCoords" /\ query.answered) =>
    query.ret.ok /\ ListSet(query.ret.list) \subseteq Positions

\* ------------------------------------------------ claims on ownership
\* C36: setTileOwner(coords, city, false) on a tile that has an owner changes
\* nothing, so settleCityAt next to a city takes no tile from it: the owner
\* and the counters of every owned tile and the tile sets of the cities
\* that existed stay as they were.
C36_OwnedTilesKept ==
  [][/\ (lastHandler' = "setTileOwner" /\ ~lastCall'.ret /\ tiles[lastCall'.p].owner # NoCity)
         => (tiles' = tiles /\ cities' = cities)
     /\ lastHandler' = "settleCityAt"
         => /\ \A p \in Positions :
                 tiles[p].owner # NoCity =>
                   /\ tiles'[p].owner = tiles[p].owner
                   /\ tiles'[p].visibleTo = tiles[p].visibleTo
            /\ \A c \in 1 .. Len(cities) : cities'[c].tiles = cities[c].tiles]_vars

\* A second city was settled beside the first and owns fewer than seven
\* tiles, or setTileOwner without overwrite was called on an owned tile of
\* another city.
C36_SettledBesideACity ==
  \/ /\ lastHandler = "settleCityAt" /\ Len(cities) = 2
     /\ Cardinality(cities[2].tiles) \in 1 .. 6
  \/ /\ lastHandler = "setTileOwner" /\ ~lastCall.ret
     /\ tiles[lastCall.p].owner \notin {NoCity, lastCall.ownerID}

\* C37: after any settleCityAt and setTileOwner calls a coord is in a city's
\* tile set exactly when the tile at the coord has that city as owner, so the
\* tile sets of two cities are disjoint.
C37_OwnerMatchesTileSets ==
  /\ \A c \in 1 .. Len(cities), p \in Positions : p \in cities[c].tiles <=> tiles[p].owner = c
  /\ \A c, d \in 1 .. Len(cities) : c # d => cities[c].tiles \cap cities[d].tiles = {}

\* A tile of one city was handed to the other with overwrite = true.
C37_TileHandedOver ==
  /\ lastHandler = "setTileOwner" /\ lastCall.ret /\ Len(cities) = 2
  /\ tiles[lastCall.p].owner = lastCall.ownerID
  /\ Cardinality(cities[lastCall.ownerID].tiles) \in {5, 8}

\* The shares handed out in the first n passes of a trader loop, summed for
\* one resource.
RECURSIVE SharesHanded(_, _, _)
SharesHanded(handed, k, n) ==
  IF n = 0 THEN 0 ELSE handed[n].traderShare[k] + SharesHanded(handed, k, n - 1)

\* What the traders accepted in the first n passes of a trader loop, summed
\* for one resource.
RECURSIVE LoadAccepted(_, _, _)
LoadAccepted(handed, k, n) ==
  IF n = 0 THEN 0
  ELSE (handed[n].carriedAfter[k] - handed[n].carriedBefore[k]) + LoadAccepted(handed, k, n - 1)

\* The trader loops the work() calls of the last handler ran.
TraderLoops == {workLog[n].handed : n \in 1 .. Len(workLog)} \ {<< >>}

\* In every trader loop of work() the store of the improvement loses exactly
\* what the traders that are not expired accept, no trader accepts more than
\* its share, the store never goes negative, and an expired trader leaves
\* the list with its load and the store untouched.
TraderLoopConserves ==
  \A handed \in TraderLoops :
    /\ \A j \in 1 .. Len(handed), k \in ResourceKeys :
         /\ handed[j].storageAfter[k] >= 0
         /\ handed[j].storageBefore[k] - handed[j].storageAfter[k]
              = handed[j].carriedAfter[k] - handed[j].carriedBefore[k]
         /\ handed[j].carriedAfter[k] - handed[j].carriedBefore[k] >= 0
         /\ handed[j].carriedAfter[k] - handed[j].carriedBefore[k] <= handed[j].traderShare[k]
         /\ handed[j].expired =>
              /\ ~handed[j].listed
              /\ handed[j].traderShare[k] = 0
              /\ handed[j].carriedAfter[k] = handed[j].carriedBefore[k]
         /\ ~handed[j].expired => handed[j].listed
    /\ \A j \in 1 .. Len(handed) - 1 : handed[j + 1].storageBefore = handed[j].storageAfter
    /\ \A k \in ResourceKeys :
         handed[1].storageBefore[k] - handed[Len(handed)].storageAfter[k]
           = LoadAccepted(handed, k, Len(handed))

\* C38: in the trader loop of work() resources are conserved and the store
\* never goes negative: what the store loses is what the traders that are not
\* expired accepted, the shares handed out sum to at most the store held at
\* the start of the loop, and expired traders leave the list without a share.
C38_SharesWithinTheStore ==
  /\ TraderLoopConserves
  /\ \A handed \in TraderLoops, k \in ResourceKeys :
       SharesHanded(handed, k, Len(handed)) <= handed[1].storageBefore[k]

\* C38 as the code has it: the loop conserves the resources and what the
\* traders accepted, not what they were offered, sums to at most the store
\* held at the start of the loop.
C38_AcceptedWithinTheStore ==
  /\ TraderLoopConserves
  /\ \A handed \in TraderLoops, k \in ResourceKeys :
       LoadAccepted(handed, k, Len(handed)) <= handed[1].storageBefore[k]

\* C38 witness: one trader loop dropped an expired trader and handed a share
\* to another, which took some of it and left a surplus behind.
C38_ExpiredDroppedSurplusLeft ==
  \E handed \in TraderLoops :
    /\ \E j \in 1 .. Len(handed) : handed[j].expired
    /\ \E m \in 1 .. Len(handed), k, q \in ResourceKeys :
         /\ ~handed[m].expired
         /\ handed[m].carriedAfter[q] > handed[m].carriedBefore[q]
         /\ handed[m].traderShare[k] > handed[m].carriedAfter[k] - handed[m].carriedBefore[k]

\* The improvements a game of SpecLive can hold: the forest and one for
\* every step.
LiveImps == 1 .. (MaxLiveSteps + 1)

\* Improvement i stands on a tile with a live errand, has no trader of its
\* own and yields every resource the errand costs.
YieldsTheCost(i) ==
  /\ i <= Len(imps)
  /\ \E p \in Positions : tiles[p].improvement = i
  /\ imps[i].errand # << >>
  /\ imps[i].traders = << >>
  /\ \A k \in ResourceKeys : imps[i].errand[1].cost[k] > 0 => imps[i].yield[k] > 0

\* The last turn marked the errand of improvement i completed and removed it.
CompletedAndRemoved(i) ==
  /\ i <= Len(imps)
  /\ imps[i].errand = << >>
  /\ \E n \in 1 .. Len(workLog) :
       /\ workLog[n].imp = i
       /\ workLog[n].errandAfter # << >>
       /\ workLog[n].errandAfter[1].completed

\* In a work() call on an improvement with a live errand and no trader the
\* store grows by the yield up to the cost, and the errand is completed in
\* the call that finds the cost stored, not before.
ErrandStoreGrows ==
  \A n \in 1 .. Len(workLog) :
    (workLog[n].errandBefore # << >> /\ workLog[n].handed = << >>
       /\ imps[workLog[n].imp].traders = << >>) =>
      Bind(workLog[n], LAMBDA e :
        IF fulfills(e.storageBefore, e.errandBefore[1].cost)
          THEN e.errandAfter[1].completed
          ELSE /\ ~e.errandAfter[1].completed
               /\ \A k \in ResourceKeys :
                    e.storageAfter[k] = Min(e.storageBefore[k] + imps[e.imp].yield[k],
                                            e.errandBefore[1].cost[k]))

\* C39: under repeated Map.turn calls a live errand on an improvement with no
\* outgoing traders and a positive yield in every resource the errand costs
\* is eventually marked completed and removed; the store grows by the yield
\* each turn up to the cost and the completion is detected in the work() call
\* after the store first reaches the cost.
C39_ErrandEventuallyCompleted ==
  /\ \A i \in LiveImps : YieldsTheCost(i) ~> CompletedAndRemoved(i)
  /\ [] ErrandStoreGrows

\* C39 witness: a turn completed and removed an errand whose cost the store
\* had reached under the errand's capacity, turn by turn.
C39_CostReachedThenCompleted ==
  /\ lastHandler = "turn"
  /\ \E i \in LiveImps :
       /\ CompletedAndRemoved(i)
       /\ \E n \in 1 .. Len(workLog) :
            /\ workLog[n].imp = i
            /\ workLog[n].handed = << >>
            /\ workLog[n].storageBefore = workLog[n].errandBefore[1].cost

\* The username has a player.
Connected(ps, username) == \E i \in 1 .. Len(ps) : ps[i].username = username

\* The civIDs in [0, playerCount) no player holds.
FreeCivIDs(ps) == {c \in CivIDs : \A i \in 1 .. Len(ps) : ps[i].civID # c}

\* No two players have one username, and no two players hold one civID; a
\* player that was given null holds none.
OneCivPerUsername ==
  \A i, j \in 1 .. Len(players) :
    i # j =>
      /\ players[i].username # players[j].username
      /\ players[i].civID # NoCivID => players[i].civID # players[j].civID

\* The step connected the player of a username with the civID
\* newPlayerCivID returned for it.
ConnectedNewPlayer ==
  /\ lastHandler' = "connectPlayer"
  /\ Connected(players', lastCall'.option)
  /\ \A i \in 1 .. Len(players') :
       players'[i].username = lastCall'.option => players'[i].civID = lastCall'.ownerID

\* C40: after any sequence of connectPlayer(username, new
\* Player(newPlayerCivID(username))) steps no two distinct usernames hold the
\* same civID: newPlayerCivID returns the civID the username holds if it is
\* connected, otherwise the smallest civID in [0, playerCount) no player
\* holds, and null exactly when every civID is taken.
C40_OneCivPerUsername ==
  /\ [] OneCivPerUsername
  /\ [][ /\ ConnectedNewPlayer
         /\ IF Connected(players, lastCall'.option)
              THEN \E i \in 1 .. Len(players) :
                     /\ players[i].username = lastCall'.option
                     /\ players[i].civID = lastCall'.ownerID
              ELSE /\ lastCall'.ownerID = NoCivID <=> FreeCivIDs(players) = {}
                   /\ lastCall'.ownerID # NoCivID =>
                        /\ lastCall'.ownerID \in FreeCivIDs(players)
                        /\ \A c \in FreeCivIDs(players) : lastCall'.ownerID <= c
         /\ lastCall'.ownerID = NoCivID => FreeCivIDs(players) = {} ]_vars

\* C40 witness: both civIDs are held, a third username was answered null and
\* a connected username joined again and kept its civID.
C40_FullGameAndARejoin ==
  /\ lastHandler = "connectPlayer"
  /\ FreeCivIDs(players) = {}
  /\ \E i \in 1 .. Len(players) : players[i].civID = NoCivID
  /\ lastCall.ownerID # NoCivID
  /\ MaxJoinSteps - steps > Len(players)

====
